---------------------------- MODULE Spec2Model ----------------------------
(***************************************************************************)
(* Model of the invoice field extractor (pdfdata2.py) and of its caller    *)
(* parse_pdf (TICKETER.py).                                                *)
(*                                                                         *)
(* A text string is a sequence of one-character strings, so that the       *)
(* regular expressions, splits and substring tests of the source are       *)
(* computed character by character.  A document is a sequence of lines.    *)
(* Money values are integers counting cents.                               *)
(***************************************************************************)
EXTENDS Integers, Sequences, FiniteSets, TLC

(***************************************************************************)
(* Character classes used by the regular expressions of pdfdata2.py.       *)
(***************************************************************************)
Digit ==
  {
    "0", "1", "2", "3", "4", "5", "6", "7", "8", "9" }

LatinUpper ==
  {
    "A", "B", "C", "D", "E", "F", "G", "H", "I", "J", "K", "L", "M", "N",
    "O", "P", "Q", "R", "S", "T", "U", "V", "W", "X", "Y", "Z" }

LatinLower ==
  {
    "a", "b", "c", "d", "e", "f", "g", "h", "i", "j", "k", "l", "m", "n",
    "o", "p", "q", "r", "s", "t", "u", "v", "w", "x", "y", "z" }

GreekUpper ==
  {
    "Α", "Β", "Γ", "Δ", "Ε", "Ζ", "Η", "Θ", "Ι", "Κ", "Λ", "Μ", "Ν", "Ξ",
    "Ο", "Π", "Ρ", "Σ", "Τ", "Υ", "Φ", "Χ", "Ψ", "Ω" }

GreekLower ==
  {
    "α", "β", "γ", "δ", "ε", "ζ", "η", "θ", "ι", "κ", "λ", "μ", "ν", "ξ",
    "ο", "π", "ρ", "ς", "σ", "τ", "υ", "φ", "χ", "ψ", "ω" }

GreekAccented ==
  {
    "Ϊ", "Ϋ", "ϊ", "ϋ", "ΐ", "ΰ", "ά", "έ", "ή", "ί", "ό", "ύ", "ώ", "Ά",
    "Έ", "Ή", "Ί", "Ό", "Ύ", "Ώ" }

UpperPairs ==
  {
    <<"a","A">>, <<"b","B">>, <<"c","C">>, <<"d","D">>, <<"e","E">>,
    <<"f","F">>, <<"g","G">>, <<"h","H">>, <<"i","I">>, <<"j","J">>,
    <<"k","K">>, <<"l","L">>, <<"m","M">>, <<"n","N">>, <<"o","O">>,
    <<"p","P">>, <<"q","Q">>, <<"r","R">>, <<"s","S">>, <<"t","T">>,
    <<"u","U">>, <<"v","V">>, <<"w","W">>, <<"x","X">>, <<"y","Y">>,
    <<"z","Z">>, <<"α","Α">>, <<"β","Β">>, <<"γ","Γ">>, <<"δ","Δ">>,
    <<"ε","Ε">>, <<"ζ","Ζ">>, <<"η","Η">>, <<"θ","Θ">>, <<"ι","Ι">>,
    <<"κ","Κ">>, <<"λ","Λ">>, <<"μ","Μ">>, <<"ν","Ν">>, <<"ξ","Ξ">>,
    <<"ο","Ο">>, <<"π","Π">>, <<"ρ","Ρ">>, <<"ς","Σ">>, <<"σ","Σ">>,
    <<"τ","Τ">>, <<"υ","Υ">>, <<"φ","Φ">>, <<"χ","Χ">>, <<"ψ","Ψ">>,
    <<"ω","Ω">>, <<"ϊ","Ϊ">>, <<"ϋ","Ϋ">>, <<"ά","Ά">>, <<"έ","Έ">>,
    <<"ή","Ή">>, <<"ί","Ί">>, <<"ό","Ό">>, <<"ύ","Ύ">>, <<"ώ","Ώ">> }

LowerPairs ==
  {
    <<"A","a">>, <<"B","b">>, <<"C","c">>, <<"D","d">>, <<"E","e">>,
    <<"F","f">>, <<"G","g">>, <<"H","h">>, <<"I","i">>, <<"J","j">>,
    <<"K","k">>, <<"L","l">>, <<"M","m">>, <<"N","n">>, <<"O","o">>,
    <<"P","p">>, <<"Q","q">>, <<"R","r">>, <<"S","s">>, <<"T","t">>,
    <<"U","u">>, <<"V","v">>, <<"W","w">>, <<"X","x">>, <<"Y","y">>,
    <<"Z","z">>, <<"Α","α">>, <<"Β","β">>, <<"Γ","γ">>, <<"Δ","δ">>,
    <<"Ε","ε">>, <<"Ζ","ζ">>, <<"Η","η">>, <<"Θ","θ">>, <<"Ι","ι">>,
    <<"Κ","κ">>, <<"Λ","λ">>, <<"Μ","μ">>, <<"Ν","ν">>, <<"Ξ","ξ">>,
    <<"Ο","ο">>, <<"Π","π">>, <<"Ρ","ρ">>, <<"Σ","σ">>, <<"Τ","τ">>,
    <<"Υ","υ">>, <<"Φ","φ">>, <<"Χ","χ">>, <<"Ψ","ψ">>, <<"Ω","ω">>,
    <<"Ϊ","ϊ">>, <<"Ϋ","ϋ">>, <<"Ά","ά">>, <<"Έ","έ">>, <<"Ή","ή">>,
    <<"Ί","ί">>, <<"Ό","ό">>, <<"Ύ","ύ">>, <<"Ώ","ώ">> }

ANCHOR_WORD == <<"Σ","τ","ο","ι","χ","ε","ί","α">>

ANCHOR == <<"Σ","τ","ο","ι","χ","ε","ί","α"," ","Π","ε","λ","ά","τ","η">>

TABLE_HEADER == <<"Κ","ω","δ","ι","κ","ό","ς"," ","Ε","ί","δ","ο","υ","ς">>

SERIAL_LABEL == <<"Σ","ε","ι","ρ","ι","α","κ","ό","ς">>

SERIAL_LABEL_LOWER == <<"σ","ε","ι","ρ","ι","α","κ","ό","ς">>

NAME_LABEL == <<"Ε","Π","Ω","Ν","Υ","Μ","Ι","Α",":">>

PHONE_LABEL == <<"Τ","η","λ","έ","φ","ω","ν","ο",":">>

INVOICE_LABEL == <<"Α","ρ","."," ","π","α","ρ","α","σ","τ","α","τ","ι","κ","ο","ύ",":">>

INVOICE_MARK == <<"Α","Π","Δ","Α">>

NAME_BLACKLIST ==
  {
    <<"Ε","ί","δ","ο","ς"," ","Π","α","ρ","α","σ","τ","α","τ","ι","κ","ο","ύ">>,
    <<"Π","α","ρ","α","σ","τ","α","τ","ι","κ","ο","ύ">>,
    <<"Ε","ί","δ","ο","ς">>,
    <<"Α","Π","Ο","Δ","Ε","Ι","Ξ","Η">>,
    <<"Λ","Ι","Α","Ν","Ι","Κ","Η","Σ">>,
    <<"Δ",".","Α","Π","Ο","Σ","Τ","Ο","Λ","Η","Σ">>,
    <<"Κ","ω","δ","ι","κ","ό","ς"," ","Ε","ί","δ","ο","υ","ς">>,
    <<"Π","ε","ρ","ι","γ","ρ","α","φ","ή">>,
    <<"Π","ο","σ","ό","τ","η","τ","α">>,
    <<"Τ","ι","μ","ή"," ","Μ","ο","ν","ά","δ","ο","ς">>,
    <<"Έ","κ","π","τ","ω","σ","η">>,
    <<"Α","ξ","ί","α">> }

INLINE_KEYWORDS ==
  {
    <<"A","P","P","L","E">>,
    <<"I","P","H","O","N","E">>,
    <<"C","H","A","R","G","E","R">>,
    <<"C","A","B","L","E">>,
    <<"C","A","S","E">>,
    <<"U","S","B">>,
    <<"S","A","M","S","U","N","G">>,
    <<"M","A","C">>,
    <<"J","B","L">>,
    <<"S","P","E","A","K","E","R">> }

DESC_KEYWORDS ==
  {
    <<"A","P","P","L","E">>,
    <<"I","P","H","O","N","E">>,
    <<"C","H","A","R","G","E","R">>,
    <<"C","A","B","L","E">>,
    <<"C","A","S","E">>,
    <<"U","S","B">>,
    <<"S","A","M","S","U","N","G">>,
    <<"M","A","C">>,
    <<"J","B","L">>,
    <<"S","P","E","A","K","E","R">>,
    <<"E","A","R","P","O","D","S">>,
    <<"H","A","N","D","S","F","R","E","E">>,
    <<"P","O","R","T","A","B","L","E">> }

END_MARKERS ==
  {
    <<"Σ","Κ","Ο","Π","Ο","Σ"," ","Δ","Ι","Α","Κ","Ι","Ν","Η","Σ","Η","Σ">>,
    <<"Τ","Ο","Π","Ο","Σ"," ","Α","Π","Ο","Σ","Τ","Ο","Λ","Η","Σ">>,
    <<"Σ","Χ","Ο","Λ","Ι","Α">>,
    <<"Σ","υ","ν","ο","λ","ι","κ","ή">>,
    <<"Τ","Η","Λ","Ε","Φ","Ω","Ν","Ο",":">>,
    <<"Π","Ο","Λ","Η",":">> }

SKIP_LABELS ==
  {
    <<"Ώ","ρ","α">>,
    <<"Μ",".","Μ",".">>,
    <<"Π","ε","ρ","ι","γ","ρ","α","φ","ή">>,
    <<"Π","ο","σ","ό","τ","η","τ","α">>,
    <<"Τ","ι","μ","ή"," ","Μ","ο","ν","ά","δ","ο","ς">>,
    <<"Σ","ε","ι","ρ","ά">>,
    <<"T","M","X">> }

STOP_LABELS ==
  {
    <<"Π","Ο","Λ","Η",":">>,
    <<"Δ",".","Ο",".","Υ",":">>,
    <<"Τ","Η","Λ","Ε","Φ","Ω","Ν","Ο",":">>,
    <<"Α","Π","Ο","Δ","Ε","Ι","Ξ","Η">>,
    <<"Η","μ","ε","ρ","ο","μ","η","ν","ί","α">>,
    <<"Σ","ε","ι","ρ","ά">>,
    <<"Κ","ω","δ","ι","κ","ό","ς"," ","Ε","ί","δ","ο","υ","ς">> }

NON_NAME_LABELS ==
  {
    <<"Ε","ί","δ","ο","ς"," ","Π","α","ρ","α","σ","τ","α","τ","ι","κ","ο","ύ">>,
    <<"Π","α","ρ","α","σ","τ","α","τ","ι","κ","ο","ύ">>,
    <<"Δ",".","Α","Π","Ο","Σ","Τ","Ο","Λ","Η","Σ">>,
    <<"Λ","Ι","Α","Ν","Ι","Κ","Η","Σ">> }

(***************************************************************************)
(* String primitives (Python str methods used by the source).              *)
(***************************************************************************)
Space == {" ", "\n"}

Letter == LatinUpper \cup LatinLower \cup GreekUpper \cup GreekLower
            \cup GreekAccented

\* s.isdigit() on a character
IsDigit(c) == c \in Digit

\* CaseIgnorable characters of the alphabet (final-sigma rule of str.lower)
CaseIgnorable == {".", ":"}

UpperChar(c) ==
  IF \E p \in UpperPairs : p[1] = c
    THEN (CHOOSE p \in UpperPairs : p[1] = c)[2]
    ELSE c

\* str.upper()
Upper(s) == [i \in 1..Len(s) |-> UpperChar(s[i])]

RECURSIVE LetterBefore(_, _)
LetterBefore(s, i) ==
  IF i < 1 THEN FALSE
  ELSE IF s[i] \in CaseIgnorable THEN LetterBefore(s, i - 1)
  ELSE s[i] \in Letter

RECURSIVE LetterAfter(_, _)
LetterAfter(s, i) ==
  IF i > Len(s) THEN FALSE
  ELSE IF s[i] \in CaseIgnorable THEN LetterAfter(s, i + 1)
  ELSE s[i] \in Letter

LowerChar(s, i) ==
  IF s[i] = "Σ"
    THEN IF LetterBefore(s, i - 1) /\ ~LetterAfter(s, i + 1)
           THEN "ς" ELSE "σ"
  ELSE IF \E p \in LowerPairs : p[1] = s[i]
    THEN (CHOOSE p \in LowerPairs : p[1] = s[i])[2]
    ELSE s[i]

\* str.lower(), with the final-sigma rule
Lower(s) == [i \in 1..Len(s) |-> LowerChar(s, i)]

\* pat in s
Contains(s, pat) ==
  \E i \in 1..(Len(s) - Len(pat) + 1) :
     \A k \in 1..Len(pat) : s[i + k - 1] = pat[k]

ContainsAny(s, pats) == \E pat \in pats : Contains(s, pat)

RECURSIVE LStrip(_)
LStrip(s) ==
  IF s # <<>> /\ Head(s) \in Space THEN LStrip(Tail(s)) ELSE s

RECURSIVE RStrip(_)
RStrip(s) ==
  IF s # <<>> /\ s[Len(s)] \in Space
    THEN RStrip(SubSeq(s, 1, Len(s) - 1)) ELSE s

\* str.strip()
Strip(s) == RStrip(LStrip(s))

RECURSIVE SplitFrom(_, _, _)
SplitFrom(s, i, cur) ==
  IF i > Len(s) THEN (IF cur = <<>> THEN <<>> ELSE <<cur>>)
  ELSE IF s[i] \in Space
    THEN (IF cur = <<>> THEN <<>> ELSE <<cur>>) \o SplitFrom(s, i + 1, <<>>)
    ELSE SplitFrom(s, i + 1, Append(cur, s[i]))

\* str.split(): the whitespace-separated tokens
Split(s) == SplitFrom(s, 1, <<>>)

\* str.split(None, 1): the first token and the rest of the text
Split1(s) ==
  LET t == LStrip(s)
      n == IF \E i \in 1..Len(t) : t[i] \in Space
             THEN (CHOOSE i \in 1..Len(t) :
                     t[i] \in Space /\ \A k \in 1..(i - 1) : t[k] \notin Space)
             ELSE 0
  IN  IF t = <<>> THEN <<>>
      ELSE IF n = 0 THEN <<t>>
      ELSE LET rest == LStrip(SubSeq(t, n, Len(t)))
           IN  IF rest = <<>> THEN <<SubSeq(t, 1, n - 1)>>
               ELSE <<SubSeq(t, 1, n - 1), rest>>

RECURSIVE JoinWith(_, _)
\* sep.join(parts)
JoinWith(parts, sep) ==
  IF parts = <<>> THEN <<>>
  ELSE IF Len(parts) = 1 THEN parts[1]
  ELSE parts[1] \o sep \o JoinWith(Tail(parts), sep)

\* s.replace(ch, "")
Remove(s, ch) == SelectSeq(s, LAMBDA c : c # ch)

\* s.replace(a, b) for single characters
Replace(s, a, b) == [i \in 1..Len(s) |-> IF s[i] = a THEN b ELSE s[i]]

AllDigits(s) == \A i \in 1..Len(s) : s[i] \in Digit

\* number of leading digits of s from position i
RECURSIVE DigitRun(_, _)
DigitRun(s, i) ==
  IF i <= Len(s) /\ s[i] \in Digit THEN 1 + DigitRun(s, i + 1) ELSE 0

DigitVal(c) ==
  CASE c = "0" -> 0 [] c = "1" -> 1 [] c = "2" -> 2 [] c = "3" -> 3
    [] c = "4" -> 4 [] c = "5" -> 5 [] c = "6" -> 6 [] c = "7" -> 7
    [] c = "8" -> 8 [] c = "9" -> 9

RECURSIVE DigitsVal(_)
DigitsVal(s) ==
  IF s = <<>> THEN 0
  ELSE 10 * DigitsVal(SubSeq(s, 1, Len(s) - 1)) + DigitVal(s[Len(s)])

Min(a, b) == IF a < b THEN a ELSE b
Max(a, b) == IF a > b THEN a ELSE b
Abs(a) == IF a < 0 THEN 0 - a ELSE a

(***************************************************************************)
(* Absent values.  None stands for Python's None where a string is         *)
(* expected (it is not a string over the alphabet); NoPrice stands for a   *)
(* None price ("gross": None), distinct from every amount.                 *)
(***************************************************************************)
None == <<"None">>

NoPrice == -1

Punct == {".", ",", "-", "/", ":", "+"}

Char == Letter \cup Digit \cup Space \cup Punct

IsString(v) == \A i \in 1..Len(v) : v[i] \in Char

(***************************************************************************)
(* Regular expressions of pdfdata2.py.                                     *)
(***************************************************************************)
NameChar == Letter \cup {".", "-"}

PlainLetter == LatinUpper \cup LatinLower \cup GreekUpper \cup GreekLower

Sep == {".", ","}

\* SKU_RE.match(s)
SkuMatch(s) == Len(s) >= 6 /\ Len(s) <= 8 /\ AllDigits(s)

\* MONEY_RE from position j on, once the leading digits are consumed:
\* (?:[.,]\d{3})* greedy, then (?:[.,]\d{2}); the index of the last
\* character matched, 0 when there is no match
RECURSIVE MoneyTail(_, _)
MoneyTail(s, j) ==
  LET group == j + 3 <= Len(s) /\ s[j] \in Sep /\ DigitRun(s, j + 1) >= 3
      final == j + 2 <= Len(s) /\ s[j] \in Sep /\ DigitRun(s, j + 1) >= 2
      viaGroup == IF group THEN MoneyTail(s, j + 4) ELSE 0
  IN  IF viaGroup # 0 THEN viaGroup
      ELSE IF final THEN j + 2 ELSE 0

\* MONEY_RE matched at position i: index of the last character, or 0
MoneyEndAt(s, i) ==
  LET j0 == IF s[i] = "-" THEN i + 1 ELSE i
      r  == DigitRun(s, j0)
      try(d) == IF r >= d THEN MoneyTail(s, j0 + d) ELSE 0
  IN  IF try(3) # 0 THEN try(3)
      ELSE IF try(2) # 0 THEN try(2)
      ELSE try(1)

RECURSIVE MoneyFindAllFrom(_, _)
MoneyFindAllFrom(s, i) ==
  IF i > Len(s) THEN <<>>
  ELSE LET e == MoneyEndAt(s, i)
       IN  IF e # 0 THEN <<SubSeq(s, i, e)>> \o MoneyFindAllFrom(s, e + 1)
           ELSE MoneyFindAllFrom(s, i + 1)

\* MONEY_RE.findall(s)
MoneyFindAll(s) == MoneyFindAllFrom(s, 1)

RECURSIVE MoneyTailFull(_, _)
MoneyTailFull(s, j) ==
  \/ /\ j + 3 <= Len(s) /\ s[j] \in Sep /\ DigitRun(s, j + 1) >= 3
     /\ MoneyTailFull(s, j + 4)
  \/ /\ j + 2 = Len(s) /\ s[j] \in Sep /\ DigitRun(s, j + 1) = 2

\* MONEY_RE.fullmatch(s)
MoneyFullMatch(s) ==
  /\ s # <<>>
  /\ LET j0 == IF s[1] = "-" THEN 2 ELSE 1
     IN  \E d \in 1..3 : DigitRun(s, j0) >= d /\ MoneyTailFull(s, j0 + d)

\* PHONE8_RE.search(s): the captured 8 digits, <<>> when there is no match
Phone8At(s, i) ==
  /\ s[i] \in {"2", "9"}
  /\ DigitRun(s, i) = 8
  /\ (i = 1 \/ s[i - 1] \notin Digit)

Phone8Search(s) ==
  IF \E i \in 1..Len(s) : Phone8At(s, i)
    THEN LET i == CHOOSE i \in 1..Len(s) :
                    Phone8At(s, i) /\ \A k \in 1..(i - 1) : ~Phone8At(s, k)
         IN  SubSeq(s, i, i + 7)
    ELSE <<>>

\* re.search(r'\+(\d{10,15})', s).group(0), <<>> when there is no match
IntlAt(s, i) == s[i] = "+" /\ DigitRun(s, i + 1) >= 10

\* IntlSearch returning group(1), the digits without the "+"
IntlSearch_NoPlus(s) ==
  IF \E i \in 1..Len(s) : IntlAt(s, i)
    THEN LET i == CHOOSE i \in 1..Len(s) :
                    IntlAt(s, i) /\ \A k \in 1..(i - 1) : ~IntlAt(s, k)
         IN  SubSeq(s, i + 1, i + Min(DigitRun(s, i + 1), 15))
    ELSE <<>>

IntlSearch(s) ==
  IF \E i \in 1..Len(s) : IntlAt(s, i)
    THEN LET i == CHOOSE i \in 1..Len(s) :
                    IntlAt(s, i) /\ \A k \in 1..(i - 1) : ~IntlAt(s, k)
         IN  SubSeq(s, i, i + Min(DigitRun(s, i + 1), 15))
    ELSE <<>>

\* SERIAL_RE.search(s).group(1), <<>> when there is no match
SerialSearch(s) ==
  IF \E i \in 1..Len(s) : DigitRun(s, i) >= 14
    THEN LET i == CHOOSE i \in 1..Len(s) :
                    DigitRun(s, i) >= 14
                    /\ \A k \in 1..(i - 1) : DigitRun(s, k) < 14
         IN  SubSeq(s, i, i + Min(DigitRun(s, i), 20) - 1)
    ELSE <<>>

\* NAME_LINE_RE.match(s)
NameLineMatch(s) ==
  /\ s # <<>>
  /\ \A i \in 1..Len(s) : s[i] \in NameChar \cup {" "}
  /\ s[1] # " " /\ s[Len(s)] # " "
  /\ \E i \in 1..Len(s) : s[i] = " "

\* INVOICE_OLD_RE matched at position i of the full text: the index of the
\* first character of group(1), 0 when there is no match at i
RECURSIVE SkipSpace(_, _)
SkipSpace(s, j) ==
  IF j <= Len(s) /\ s[j] \in Space THEN SkipSpace(s, j + 1) ELSE j

InvoiceOldAt(s, i) ==
  LET j  == SkipSpace(s, i + Len(INVOICE_LABEL))
      r1 == DigitRun(s, j)
      m  == j + r1
  IN  IF /\ i + Len(INVOICE_LABEL) - 1 <= Len(s)
         /\ SubSeq(s, i, i + Len(INVOICE_LABEL) - 1) = INVOICE_LABEL
         /\ r1 >= 1
         /\ m + 3 <= Len(s)
         /\ SubSeq(s, m, m + 3) = INVOICE_MARK
         /\ DigitRun(s, m + 4) >= 1
        THEN j ELSE 0

\* INVOICE_OLD_RE.search(s).group(1), <<>> when there is no match
InvoiceOldSearch(s) ==
  IF \E i \in 1..Len(s) : InvoiceOldAt(s, i) # 0
    THEN LET i == CHOOSE i \in 1..Len(s) :
                    InvoiceOldAt(s, i) # 0
                    /\ \A k \in 1..(i - 1) : InvoiceOldAt(s, k) = 0
             j == InvoiceOldAt(s, i)
             m == j + DigitRun(s, j)
         IN  SubSeq(s, j, m + 3 + DigitRun(s, m + 4))
    ELSE <<>>

\* INVOICE_NEW_RE.match(s)
InvoiceNewMatch(s) ==
  /\ Len(s) = 16
  /\ AllDigits(SubSeq(s, 1, 6))
  /\ SubSeq(s, 7, 10) = INVOICE_MARK
  /\ AllDigits(SubSeq(s, 11, 16))

\* CST_SHORT_RE.fullmatch(s)
CstShortMatch(s) ==
  /\ Len(s) \in {2, 3}
  /\ \A i \in 1..(Len(s) - 1) : s[i] \in PlainLetter
  /\ s[Len(s)] \in Digit

\* CST_10DIGIT_RE.fullmatch(s)
Cst10DigitMatch(s) == Len(s) = 10 /\ AllDigits(s)

\* CST_CB_RE.fullmatch(s)
CstCbMatch(s) ==
  /\ Len(s) = 10
  /\ s[1] = "C"
  /\ s[2] \in {"Β", "B"}
  /\ AllDigits(SubSeq(s, 3, 10))

\* DATE_RE.fullmatch(s)
DateMatch(s) ==
  \E a \in 1..2, b \in 1..2, c \in 2..4 :
     /\ Len(s) = a + b + c + 2
     /\ AllDigits(SubSeq(s, 1, a))
     /\ s[a + 1] \in {"/", "-"}
     /\ AllDigits(SubSeq(s, a + 2, a + 1 + b))
     /\ s[a + b + 2] \in {"/", "-"}
     /\ AllDigits(SubSeq(s, a + b + 3, Len(s)))

(***************************************************************************)
(* get_lines: the stripped, non-blank text lines of the file, in order.    *)
(***************************************************************************)
RECURSIVE get_lines(_)
get_lines(text) ==
  IF text = <<>> THEN <<>>
  ELSE LET s == Strip(Head(text))
       IN  (IF s # <<>> THEN <<s>> ELSE <<>>) \o get_lines(Tail(text))

\* "\n".join(lines)
FullText(ls) == JoinWith(ls, <<"\n">>)

\* the least index of a set of line indices, 0 when the set is empty
FirstIdx(S) == IF S = {} THEN 0 ELSE CHOOSE i \in S : \A k \in S : i <= k

(***************************************************************************)
(* looks_like_name and the last-token split of a name line.                *)
(***************************************************************************)
looks_like_name(s) ==
  /\ ~(Contains(s, <<":">>) \/ Contains(s, ANCHOR_WORD))
  /\ ~(\E i \in 1..Len(s) : IsDigit(s[i]))
  /\ s \notin NAME_BLACKLIST
  /\ ~ContainsAny(s, NAME_BLACKLIST)
  /\ NameLineMatch(s)
  /\ Len(s) <= 60
  /\ Len(Split(s)) >= 2

\* parts = s.split(); surname = " ".join(parts[:-1]); name = parts[-1]
SplitName(s) ==
  LET parts == Split(s)
  IN  IF Len(parts) >= 2
        THEN [name    |-> parts[Len(parts)],
              surname |-> JoinWith(SubSeq(parts, 1, Len(parts) - 1), <<" ">>)]
      ELSE IF Len(parts) = 1
        THEN [name |-> parts[1], surname |-> <<>>]
      ELSE [name |-> <<>>, surname |-> <<>>]

(***************************************************************************)
(* extract_name_phone_old_format                                           *)
(***************************************************************************)
NAME_WINDOW == 12

PHONE_WINDOW == 15

IsAnchorLine(s) == Contains(s, ANCHOR)

\* OldNameRange with the window one line shorter
OldNameRange_Short(ls, a) == (a + 1)..Min(Len(ls), a + NAME_WINDOW - 2)

\* for i in range(anchor + 1, min(len(lines), anchor + 12)), the anchor
\* being at index a counted from 1
OldNameRange(ls, a) == (a + 1)..Min(Len(ls), a + NAME_WINDOW - 1)

\* OldPhoneRange with the window one line longer
OldPhoneRange_Wide(ls, a) == a..Min(Len(ls), a + PHONE_WINDOW)

\* for i in range(anchor, min(len(lines), anchor + 15))
OldPhoneRange(ls, a) == a..Min(Len(ls), a + PHONE_WINDOW - 1)

FirstIn(S) == CHOOSE i \in S : \A k \in S : i <= k

extract_name_phone_old_format(ls) ==
  LET a == FirstIdx({ix \in 1..Len(ls) : IsAnchorLine(ls[ix])})
      nameIdx == {i \in OldNameRange(ls, a) : looks_like_name(ls[i])}
      phoneIdx == {i \in OldPhoneRange(ls, a) :
                     /\ Contains(ls[i], PHONE_LABEL)
                     /\ Phone8Search(Remove(ls[i], " ")) # <<>>}
      nm == IF a # 0 /\ nameIdx # {}
              THEN SplitName(ls[FirstIn(nameIdx)])
              ELSE [name |-> <<>>, surname |-> <<>>]
      ph == IF a # 0 /\ phoneIdx # {}
              THEN Phone8Search(Remove(ls[FirstIn(phoneIdx)], " "))
              ELSE <<>>
  IN  [name |-> nm.name, surname |-> nm.surname, phone |-> ph]

(***************************************************************************)
(* extract_name_phone_new_format                                           *)
(***************************************************************************)
NAME_SCAN == 8

MAX_NAME_PARTS == 2

\* re.match(r"^[A-Za-z...\.\-\s]+$", candidate)
NamePartMatch(s) ==
  s # <<>> /\ \A i \in 1..Len(s) : s[i] \in NameChar \cup Space

\* the inner loop over the lines j..last that follow a label line
RECURSIVE CollectNameParts(_, _, _, _)
CollectNameParts(ls, j, last, parts) ==
  IF j > last THEN parts
  ELSE LET candidate == Strip(ls[j])
       IN  IF ContainsAny(candidate, STOP_LABELS) THEN parts
           ELSE IF ContainsAny(candidate, NON_NAME_LABELS)
             THEN CollectNameParts(ls, j + 1, last, parts)
           ELSE IF NamePartMatch(candidate)
             THEN IF Len(parts) + 1 >= MAX_NAME_PARTS
                    THEN Append(parts, candidate)
                    ELSE CollectNameParts(ls, j + 1, last,
                                          Append(parts, candidate))
           ELSE CollectNameParts(ls, j + 1, last, parts)

\* the outer loop over the label lines, from line i on
RECURSIVE NewFormatName(_, _)
NewFormatName(ls, i) ==
  IF i > Len(ls) THEN [name |-> <<>>, surname |-> <<>>]
  ELSE IF ~Contains(ls[i], NAME_LABEL) THEN NewFormatName(ls, i + 1)
  ELSE LET parts == CollectNameParts(ls, i + 1,
                                     Min(i + NAME_SCAN - 1, Len(ls)), <<>>)
       IN  IF Len(parts) >= 2
             THEN [name    |-> parts[Len(parts)],
                   surname |-> JoinWith(SubSeq(parts, 1, Len(parts) - 1),
                                        <<" ">>)]
           ELSE IF Len(parts) = 1
             THEN LET words == Split(parts[1])
                  IN  IF Len(words) >= 2
                        THEN [name    |-> words[Len(words)],
                              surname |-> JoinWith(
                                 SubSeq(words, 1, Len(words) - 1), <<" ">>)]
                        ELSE [name |-> parts[1], surname |-> <<>>]
           ELSE NewFormatName(ls, i + 1)

HasPhone8(s) == Phone8Search(Remove(s, " ")) # <<>>

HasIntl(s) == IntlSearch(Remove(s, " ")) # <<>>

\* first Cyprus-pattern match over all the lines, <<>> when there is none
ScanPhone8(ls) ==
  LET i == FirstIdx({ix \in 1..Len(ls) : HasPhone8(ls[ix])})
  IN  IF i # 0 THEN Phone8Search(Remove(ls[i], " ")) ELSE <<>>

\* first international match over all the lines, <<>> when there is none
ScanIntl(ls) ==
  LET i == FirstIdx({ix \in 1..Len(ls) : HasIntl(ls[ix])})
  IN  IF i # 0 THEN IntlSearch(Remove(ls[i], " ")) ELSE <<>>

extract_name_phone_new_format(ls) ==
  LET nm == NewFormatName(ls, 1)
      p8 == ScanPhone8(ls)
  IN  [name |-> nm.name, surname |-> nm.surname,
       phone |-> IF p8 # <<>> THEN p8 ELSE ScanIntl(ls)]

(***************************************************************************)
(* Scalar extractors: CST code, invoice number, serial number.             *)
(***************************************************************************)
MAX_CST_LEN == 12

is_valid_cst(token) ==
  LET candidate == Strip(token)
  IN  /\ candidate # <<>>
      /\ Len(candidate) <= MAX_CST_LEN
      /\ ~(Contains(candidate, <<"/">>) \/ Contains(candidate, <<"-">>))
      /\ ~DateMatch(candidate)
      /\ \/ CstShortMatch(candidate)
         \/ Cst10DigitMatch(candidate)
         \/ CstCbMatch(candidate)

\* the tokens of the document, line by line and in token order
RECURSIVE AllTokens(_)
AllTokens(ls) ==
  IF ls = <<>> THEN <<>> ELSE Split(Head(ls)) \o AllTokens(Tail(ls))

\* FirstValidCst returning the last valid token instead of the first
FirstValidCst_Last(tokens) ==
  LET V == {ix \in 1..Len(tokens) : is_valid_cst(tokens[ix])}
  IN  IF V # {} THEN tokens[CHOOSE i \in V : \A k \in V : k <= i]
      ELSE <<>>

FirstValidCst(tokens) ==
  LET i == FirstIdx({ix \in 1..Len(tokens) : is_valid_cst(tokens[ix])})
  IN  IF i # 0 THEN tokens[i] ELSE <<>>

extract_cst(ls, full) ==
  LET byLine == FirstValidCst(AllTokens(ls))
  IN  IF byLine # <<>> THEN byLine ELSE FirstValidCst(Split(full))

IsInvoiceLine(s) == InvoiceNewMatch(Strip(s))

\* extract_invoice with the standalone line tried before the labelled text
extract_invoice_LineFirst(ls, full) ==
  LET old == InvoiceOldSearch(full)
      i   == FirstIdx({ix \in 1..Len(ls) : IsInvoiceLine(ls[ix])})
  IN  IF i # 0 THEN Strip(ls[i])
      ELSE IF old # <<>> THEN old
      ELSE <<>>

extract_invoice(ls, full) ==
  LET old == InvoiceOldSearch(full)
      i   == FirstIdx({ix \in 1..Len(ls) : IsInvoiceLine(ls[ix])})
  IN  IF old # <<>> THEN old
      ELSE IF i # 0 THEN Strip(ls[i])
      ELSE <<>>

IsSerialLine(s) ==
  /\ Contains(s, SERIAL_LABEL) \/ Contains(Lower(s), SERIAL_LABEL_LOWER)
  /\ SerialSearch(Remove(s, " ")) # <<>>

\* extract_serial returning the last serial found instead of the first
extract_serial_Last(ls, full) ==
  LET S == {ix \in 1..Len(ls) : IsSerialLine(ls[ix])}
  IN  IF S # {}
        THEN SerialSearch(Remove(ls[CHOOSE i \in S : \A k \in S : k <= i],
                                 " "))
      ELSE <<>>

extract_serial(ls, full) ==
  LET i == FirstIdx({ix \in 1..Len(ls) : IsSerialLine(ls[ix])})
  IN  IF i # 0 THEN SerialSearch(Remove(ls[i], " ")) ELSE <<>>

(***************************************************************************)
(* parse_items: SKU discovery.                                             *)
(***************************************************************************)
HasHeader(s) == Contains(s, TABLE_HEADER)

\* FirstRow with the header line itself scanned for a SKU
FirstRow_Header(table_start) == table_start

\* for i in range(table_start + 1, len(lines)): the first line scanned
FirstRow(table_start) == table_start + 1

\* SkuAt with a leading code recorded only when a keyword follows it
SkuAt_KeywordGated(raw, phone_to_exclude) ==
  LET line  == Strip(raw)
      parts == Split1(line)
  IN  IF SkuMatch(line) /\ line # phone_to_exclude
        THEN [found |-> TRUE, sku |-> line, inline |-> FALSE, desc |-> <<>>]
      ELSE IF /\ Len(parts) >= 2
              /\ SkuMatch(parts[1])
              /\ parts[1] # phone_to_exclude
              /\ ContainsAny(Upper(parts[2]), INLINE_KEYWORDS)
        THEN [found  |-> TRUE, sku |-> parts[1], inline |-> TRUE,
              desc   |-> parts[2]]
      ELSE [found |-> FALSE, sku |-> <<>>, inline |-> FALSE, desc |-> <<>>]

\* SkuAt with a code left out when it occurs inside the phone number
SkuAt_Substring(raw, phone_to_exclude) ==
  LET line  == Strip(raw)
      parts == Split1(line)
  IN  IF SkuMatch(line) /\ ~Contains(phone_to_exclude, line)
        THEN [found |-> TRUE, sku |-> line, inline |-> FALSE, desc |-> <<>>]
      ELSE IF /\ Len(parts) >= 2
              /\ SkuMatch(parts[1])
              /\ ~Contains(phone_to_exclude, parts[1])
        THEN [found  |-> TRUE, sku |-> parts[1],
              inline |-> ContainsAny(Upper(parts[2]), INLINE_KEYWORDS),
              desc   |-> parts[2]]
      ELSE [found |-> FALSE, sku |-> <<>>, inline |-> FALSE, desc |-> <<>>]

\* what the SKU scan records for one line after the table header
SkuAt(raw, phone_to_exclude) ==
  LET line  == Strip(raw)
      parts == Split1(line)
  IN  IF SkuMatch(line) /\ line # phone_to_exclude
        THEN [found |-> TRUE, sku |-> line, inline |-> FALSE, desc |-> <<>>]
      ELSE IF /\ Len(parts) >= 2
              /\ SkuMatch(parts[1])
              /\ parts[1] # phone_to_exclude
        THEN [found  |-> TRUE, sku |-> parts[1],
              inline |-> ContainsAny(Upper(parts[2]), INLINE_KEYWORDS),
              desc   |-> parts[2]]
      ELSE [found |-> FALSE, sku |-> <<>>, inline |-> FALSE, desc |-> <<>>]

\* the SKUs appended by the scan of lines i..len(lines), with their lines
RECURSIVE SkuScan(_, _, _)
SkuScan(ls, i, phone_to_exclude) ==
  IF i > Len(ls) THEN <<>>
  ELSE LET r == SkuAt(ls[i], phone_to_exclude)
       IN  (IF r.found
              THEN <<[sku |-> r.sku, pos |-> i, inline |-> r.inline,
                      desc |-> r.desc]>>
              ELSE <<>>) \o SkuScan(ls, i + 1, phone_to_exclude)

SeqRange(q) == {q[i] : i \in 1..Len(q)}

\* sku_positions[sku]: the dictionary keeps the last line of a SKU
SkuPosition(found, sku) ==
  LET ks == {k \in 1..Len(found) : found[k].sku = sku}
  IN  found[CHOOSE k \in ks : \A m \in ks : m <= k].pos

\* sku_with_desc restricted to the SKUs that have an entry
SkuWithDesc(found) ==
  LET keys == {found[k].sku : k \in {m \in 1..Len(found) : found[m].inline}}
  IN  [sku \in keys |->
         LET ks == {k \in 1..Len(found) :
                      found[k].sku = sku /\ found[k].inline}
         IN  found[CHOOSE k \in ks : \A m \in ks : m <= k].desc]

(***************************************************************************)
(* parse_items: description association.                                   *)
(***************************************************************************)
\* the window with one more line
DESC_WINDOW_Wide == 15 + 1

DESC_WINDOW == 15

\* candidate.replace(".", "").replace(",", "").replace(" ", "").isdigit()
IsPureNumber(c) ==
  LET d == Remove(Remove(Remove(c, "."), ","), " ")
  IN  d # <<>> /\ AllDigits(d)

IsDescCandidate(c, skuSet) ==
  /\ ~SkuMatch(c)
  /\ LET parts == Split(c)
     IN  ~(parts # <<>> /\ SkuMatch(parts[1]) /\ parts[1] \in skuSet)
  /\ c \notin SKIP_LABELS
  /\ ~(Contains(c, SERIAL_LABEL) \/ Contains(Lower(c), SERIAL_LABEL_LOWER))
  /\ ~IsPureNumber(c)
  /\ ~MoneyFullMatch(c)
  /\ (\E i \in 1..Len(c) : c[i] \in PlainLetter) /\ Len(c) > 3
  /\ ContainsAny(Upper(c), DESC_KEYWORDS)

\* standalone_descriptions collected from lines i..last, stopping at the
\* first end-of-table marker
RECURSIVE Standalone(_, _, _, _)
Standalone(ls, i, last, skuSet) ==
  IF i > last THEN <<>>
  ELSE LET candidate == Strip(ls[i])
       IN  IF ContainsAny(candidate, END_MARKERS) THEN <<>>
           ELSE (IF IsDescCandidate(candidate, skuSet)
                   THEN <<[line |-> i, text |-> candidate]>>
                   ELSE <<>>) \o Standalone(ls, i + 1, last, skuSet)

FunRange(f) == {f[x] : x \in DOMAIN f}

\* the inner loop of the proximity match: min_distance is -1 for infinity
RECURSIVE BestDesc(_, _, _, _, _, _)
BestDesc(cands, k, sku_line, claimed, min_distance, best_desc) ==
  IF k > Len(cands) THEN best_desc
  ELSE LET distance == Abs(cands[k].line - sku_line)
       IN  IF /\ (min_distance = -1 \/ distance < min_distance)
              /\ cands[k].text \notin claimed
             THEN BestDesc(cands, k + 1, sku_line, claimed, distance,
                           cands[k].text)
             ELSE BestDesc(cands, k + 1, sku_line, claimed, min_distance,
                           best_desc)

\* the outer loop over skus_without_desc
RECURSIVE Associate(_, _, _, _)
Associate(todo, product_descriptions, cands, found) ==
  IF todo = <<>> THEN product_descriptions
  ELSE LET sku  == Head(todo)
           best == BestDesc(cands, 1, SkuPosition(found, sku),
                            FunRange(product_descriptions), -1, <<>>)
       IN  Associate(Tail(todo),
                     IF best # <<>>
                       THEN (sku :> best) @@ product_descriptions
                       ELSE product_descriptions,
                     cands, found)

\* standalone_descriptions: the candidates of the window that starts after
\* the table header and ends before max_sku_pos + 15
StandaloneDescriptions(ls, table_start, found) ==
  LET skus        == [k \in 1..Len(found) |-> found[k].sku]
      max_sku_pos == CHOOSE p \in {found[k].pos : k \in 1..Len(found)} :
                       \A k \in 1..Len(found) : found[k].pos <= p
  IN  Standalone(ls, table_start + 1,
                 Min(max_sku_pos + DESC_WINDOW - 1, Len(ls)), SeqRange(skus))

\* product_descriptions after the inline and the proximity passes
ProductDescriptions(ls, table_start, found) ==
  LET skus        == [k \in 1..Len(found) |-> found[k].sku]
      inlineDescs == SkuWithDesc(found)
      cands       == StandaloneDescriptions(ls, table_start, found)
      todo        == SelectSeq(skus, LAMBDA s : s \notin DOMAIN inlineDescs)
  IN  Associate(todo, inlineDescs, cands, found)

(***************************************************************************)
(* parse_items: price candidates.  Amounts are counted in cents.           *)
(***************************************************************************)
MIN_PRICE == 10

MAX_PRICE == 10000

RECURSIVE DropZeros(_)
DropZeros(d) == IF d # <<>> /\ Head(d) = "0" THEN DropZeros(Tail(d)) ELSE d

\* PriceOf without the test 10 <= val <= 10000
PriceOf_NoRange(m) ==
  LET t     == Replace(Remove(m, "."), ",", ".")
      neg   == t # <<>> /\ t[1] = "-"
      body  == IF neg THEN Tail(t) ELSE t
      dots  == {i \in 1..Len(body) : body[i] = "."}
      dot   == IF dots = {} THEN Len(body) + 1 ELSE CHOOSE i \in dots : TRUE
      whole == DropZeros(SubSeq(body, 1, dot - 1))
      frac  == SubSeq(body, dot + 1, Len(body))
      frac2 == 10 * (IF Len(frac) >= 1 THEN DigitVal(frac[1]) ELSE 0)
                 + (IF Len(frac) >= 2 THEN DigitVal(frac[2]) ELSE 0)
  IN  IF Cardinality(dots) > 1 \/ neg \/ Len(whole) > 5 THEN NoPrice
      ELSE 100 * DigitsVal(whole) + frac2

\* t = m.replace(".", "").replace(",", "."); val = float(t);
\* the amount in cents when 10 <= val <= 10000, NoPrice otherwise (also
\* when float raises).  Digits beyond the cents only decide the comparison
\* with the upper limit.
PriceOf(m) ==
  LET t     == Replace(Remove(m, "."), ",", ".")
      neg   == t # <<>> /\ t[1] = "-"
      body  == IF neg THEN Tail(t) ELSE t
      dots  == {i \in 1..Len(body) : body[i] = "."}
      dot   == IF dots = {} THEN Len(body) + 1 ELSE CHOOSE i \in dots : TRUE
      whole == DropZeros(SubSeq(body, 1, dot - 1))
      frac  == SubSeq(body, dot + 1, Len(body))
      frac2 == 10 * (IF Len(frac) >= 1 THEN DigitVal(frac[1]) ELSE 0)
                 + (IF Len(frac) >= 2 THEN DigitVal(frac[2]) ELSE 0)
      more  == \E i \in 3..Len(frac) : frac[i] # "0"
      cents == 100 * DigitsVal(whole) + frac2
  IN  IF Cardinality(dots) > 1 \/ neg \/ Len(whole) > 5 THEN NoPrice
      ELSE IF cents < 100 * MIN_PRICE THEN NoPrice
      ELSE IF cents > 100 * MAX_PRICE THEN NoPrice
      ELSE IF cents = 100 * MAX_PRICE /\ more THEN NoPrice
      ELSE cents

\* the amounts appended to all_prices for one line
LinePrices(s) ==
  LET ms == MoneyFindAll(s)
  IN  {PriceOf(ms[k]) : k \in 1..Len(ms)} \ {NoPrice}

\* set(all_prices)
AllPriceSet(ls) == UNION {LinePrices(ls[i]) : i \in 1..Len(ls)}

\* sorted(S, reverse=True)
RECURSIVE SortDesc(_)
SortDesc(S) ==
  IF S = {} THEN <<>>
  ELSE LET m == CHOOSE x \in S : \A y \in S : y <= x
       IN  <<m>> \o SortDesc(S \ {m})

\* sorted(S)
RECURSIVE SortAsc(_)
SortAsc(S) ==
  IF S = {} THEN <<>>
  ELSE LET m == CHOOSE x \in S : \A y \in S : x <= y
       IN  <<m>> \o SortAsc(S \ {m})

RECURSIVE SetSum(_)
SetSum(S) ==
  IF S = {} THEN 0
  ELSE LET x == CHOOSE x \in S : TRUE IN x + SetSum(S \ {x})

Prefix(q, n) == SubSeq(q, 1, Min(n, Len(q)))

\* is_vat with a VAT rate of 24% instead of 19%
is_vat_Rate24(price, prices) ==
  \E k \in 1..Len(prices) :
     prices[k] # price /\ Abs(100 * price - 24 * prices[k]) < 5000

\* abs(price - base * 0.19) < 0.5, in cents (exact decimal arithmetic: the
\* binary rounding of base * 0.19 is not modelled)
is_vat(price, prices) ==
  \E k \in 1..Len(prices) :
     prices[k] # price /\ Abs(100 * price - 19 * prices[k]) < 5000

MAX_COMBO == 10

\* is_sum without the search over combinations of 3 and more
is_sum_PairsOnly(price, prices) ==
  \E i \in 1..Len(prices), j \in 1..Len(prices) :
     /\ i < j
     /\ prices[i] # price /\ prices[j] # price
     /\ Abs(price - (prices[i] + prices[j])) < 100

\* abs(price - sum) < 1 for a pair, or for a combination of 3 and more
is_sum(price, prices) ==
  \/ \E i \in 1..Len(prices), j \in 1..Len(prices) :
        /\ i < j
        /\ prices[i] # price /\ prices[j] # price
        /\ Abs(price - (prices[i] + prices[j])) < 100
  \/ /\ Len(prices) >= 4
     /\ \E count \in 3..(Min(Len(prices), MAX_COMBO) - 1) :
          \E combo \in SUBSET (SeqRange(prices) \ {price}) :
             /\ Cardinality(combo) = count
             /\ Abs(price - SetSum(combo)) < 100

\* product_prices after the noise rejection (all_prices is sorted descending)
FilterPrices(all_prices) ==
  SelectSeq(all_prices,
            LAMBDA p : ~is_vat(p, all_prices) /\ ~is_sum(p, all_prices))

\* FallbackPrices without the cut to the 2n smallest amounts
FallbackPrices_NoCut(all_prices, n) ==
  LET kept == SelectSeq(all_prices, LAMBDA p : p >= 100 * MIN_PRICE)
  IN  Prefix(SortDesc(SeqRange(kept)), n)

\* the fallback taken when fewer prices than SKUs are left
FallbackPrices(all_prices, n) ==
  LET smallest == Prefix(SortAsc(SeqRange(all_prices)), 2 * n)
      kept     == SelectSeq(smallest, LAMBDA p : p >= 100 * MIN_PRICE)
  IN  Prefix(SortDesc(SeqRange(kept)), n)

ProductPrices(all_prices, n) ==
  LET filtered == FilterPrices(all_prices)
  IN  IF Len(filtered) < n THEN FallbackPrices(all_prices, n) ELSE filtered

(***************************************************************************)
(* parse_items: price assignment.                                          *)
(***************************************************************************)
\* product_value_score with the default below the accessories
product_value_score_DefaultLow(desc) ==
  LET desc_upper == Upper(desc)
      has(w) == Contains(desc_upper, w)
  IN  IF has(<<"I","P","H","O","N","E">>) \/ has(<<"I","P","A","D">>)
         \/ has(<<"M","A","C","B","O","O","K">>) THEN 1000
      ELSE IF has(<<"S","A","M","S","U","N","G">>)
              /\ has(<<"P","H","O","N","E">>) THEN 1000
      ELSE IF has(<<"S","P","E","A","K","E","R">>)
              /\ has(<<"P","O","R","T","A","B","L","E">>) THEN 100
      ELSE IF has(<<"J","B","L">>) THEN 100
      ELSE IF has(<<"C","H","A","R","G","E","R">>)
              \/ has(<<"C","A","B","L","E">>)
              \/ has(<<"C","A","S","E">>) THEN 10
      ELSE IF has(<<"E","A","R","P","O","D","S">>)
              \/ has(<<"H","A","N","D","S","F","R","E","E">>) THEN 10
      ELSE 5

product_value_score(desc) ==
  LET desc_upper == Upper(desc)
      has(w) == Contains(desc_upper, w)
  IN  IF has(<<"I","P","H","O","N","E">>) \/ has(<<"I","P","A","D">>)
         \/ has(<<"M","A","C","B","O","O","K">>) THEN 1000
      ELSE IF has(<<"S","A","M","S","U","N","G">>)
              /\ has(<<"P","H","O","N","E">>) THEN 1000
      ELSE IF has(<<"S","P","E","A","K","E","R">>)
              /\ has(<<"P","O","R","T","A","B","L","E">>) THEN 100
      ELSE IF has(<<"J","B","L">>) THEN 100
      ELSE IF has(<<"C","H","A","R","G","E","R">>)
              \/ has(<<"C","A","B","L","E">>)
              \/ has(<<"C","A","S","E">>) THEN 10
      ELSE IF has(<<"E","A","R","P","O","D","S">>)
              \/ has(<<"H","A","N","D","S","F","R","E","E">>) THEN 10
      ELSE 50

\* position of item i after items_with_scores.sort(key=score, reverse=True):
\* the sort is stable, equal scores keep the discovery order
RankOf(descs, i) ==
  1 + Cardinality({j \in 1..Len(descs) :
        \/ product_value_score(descs[j]) > product_value_score(descs[i])
        \/ /\ product_value_score(descs[j]) = product_value_score(descs[i])
           /\ j < i})

\* AssignPrices handing out the prices in ascending order on a mismatch
AssignPrices_Ascending(descs, product_prices) ==
  IF Len(descs) = Len(product_prices)
    THEN LET sorted_prices == SortDesc(SeqRange(product_prices))
         IN  [i \in 1..Len(descs) |-> sorted_prices[RankOf(descs, i)]]
    ELSE LET ascending == SortAsc(SeqRange(product_prices))
         IN  [i \in 1..Len(descs) |->
                IF i <= Len(ascending) THEN ascending[i] ELSE NoPrice]

\* AssignPrices with 0 instead of None for an item beyond the prices
AssignPrices_ZeroFill(descs, product_prices) ==
  IF Len(descs) = Len(product_prices)
    THEN LET sorted_prices == SortDesc(SeqRange(product_prices))
         IN  [i \in 1..Len(descs) |-> sorted_prices[RankOf(descs, i)]]
    ELSE [i \in 1..Len(descs) |->
            IF i <= Len(product_prices) THEN product_prices[i] ELSE 0]

\* the "gross" of every item, in discovery order
AssignPrices(descs, product_prices) ==
  IF Len(descs) = Len(product_prices)
    THEN LET sorted_prices == SortDesc(SeqRange(product_prices))
         IN  [i \in 1..Len(descs) |-> sorted_prices[RankOf(descs, i)]]
    ELSE [i \in 1..Len(descs) |->
            IF i <= Len(product_prices) THEN product_prices[i] ELSE NoPrice]

\* parse_items(lines, phone_to_exclude): every intermediate list it builds
parse_items(ls, phone_to_exclude) ==
  LET table_start == FirstIdx({ix \in 1..Len(ls) : HasHeader(ls[ix])})
      found == IF table_start = 0 THEN <<>>
               ELSE SkuScan(ls, FirstRow(table_start), phone_to_exclude)
      skus  == [k \in 1..Len(found) |-> found[k].sku]
      pd    == ProductDescriptions(ls, table_start, found)
      all_prices     == SortDesc(AllPriceSet(ls))
      filtered       == FilterPrices(all_prices)
      product_prices == ProductPrices(all_prices, Len(skus))
      descs == [k \in 1..Len(skus) |->
                  IF skus[k] \in DOMAIN pd THEN pd[skus[k]] ELSE <<>>]
      gross == AssignPrices(descs, product_prices)
  IN  IF found = <<>>
        THEN [skus |-> <<>>, standalone_descriptions |-> <<>>,
              all_prices |-> <<>>, filtered |-> <<>>,
              product_prices |-> <<>>, items |-> <<>>]
        ELSE [skus |-> skus,
              standalone_descriptions |->
                StandaloneDescriptions(ls, table_start, found),
              all_prices |-> all_prices,
              filtered |-> filtered, product_prices |-> product_prices,
              items |-> [k \in 1..Len(skus) |->
                           [sku |-> skus[k], desc |-> descs[k],
                            gross |-> gross[k]]]]

\* max(items, key=lambda x: (x["gross"] or 0)): the first maximal item
GrossKey(g) == IF g = NoPrice \/ g = 0 THEN 0 ELSE g

\* BestItem with the last maximal item chosen instead of the first
BestItem_LastMax(items) ==
  items[CHOOSE i \in 1..Len(items) :
          /\ \A j \in 1..Len(items) :
                GrossKey(items[j].gross) <= GrossKey(items[i].gross)
          /\ \A j \in (i + 1)..Len(items) :
                GrossKey(items[j].gross) < GrossKey(items[i].gross)]

BestItem(items) ==
  items[CHOOSE i \in 1..Len(items) :
          /\ \A j \in 1..Len(items) :
                GrossKey(items[j].gross) <= GrossKey(items[i].gross)
          /\ \A j \in 1..(i - 1) :
                GrossKey(items[j].gross) < GrossKey(items[i].gross)]

(***************************************************************************)
(* ensure_dot and the dictionary lookups of parse_pdf (TICKETER.py).       *)
(***************************************************************************)
\* ensure_dot without the "." placeholder for an empty value
ensure_dot_NoSentinel(value) ==
  Strip(IF value = None THEN <<>> ELSE value)

ensure_dot(value) ==
  LET v == Strip(IF value = None THEN <<>> ELSE value)
  IN  IF v # <<>> THEN v ELSE <<".">>

\* raw.get(key)
RawGet(d, key) == IF key \in DOMAIN d THEN d[key] ELSE None

ExtractKeys ==
  {"name", "surname", "phone", "invoice", "cst code", "material", "product",
   "serial"}

ResultKeys ==
  {"name", "surname", "phone", "invoice", "cstcode", "material", "product",
   "serial"}

(***************************************************************************)
(* Text lines from which the documents of the model are built.             *)
(***************************************************************************)
L_HEADER ==
  <<"Κ","ω","δ","ι","κ","ό","ς"," ","Ε","ί","δ","ο","υ","ς">>

L_SKU_APPLE ==
  <<"1","9","6","7","7","8","7"," ","H","A","N","D","S","F","R","E","E"," ","A","P","P","L","E">>

L_SKU_BARE ==
  <<"1","2","3","4","5","6","7">>

L_SKU_IPHONE ==
  <<"7","6","5","4","3","2","1"," ","I","P","H","O","N","E"," ","1","5">>

L_SKU_SCREEN ==
  <<"2","3","4","5","6","7","8"," ","S","C","R","E","E","N">>

L_DESC_CABLE ==
  <<"U","S","B"," ","C","A","B","L","E">>

L_SKU_PHONE ==
  <<"9","9","1","2","3","4","5","6">>

L_PRICES_VAT3 ==
  <<"1","5",",","0","0"," ","1","9","0",",","0","0"," ","1",".","0","0","0",",","0","0">>

L_PRICES_VAT2 ==
  <<"1","9",",","0","0"," ","1","0","0",",","0","0">>

L_PRICES_SUM3 ==
  <<"3","0",",","0","0"," ","7","0",",","0","0"," ","1","0","0",",","0","0">>

L_PRICES_SUM4 ==
  <<"1","0",",","0","0"," ","2","0",",","0","0"," ","4","0",",","0","0"," ","7","0",",","0","0">>

L_PRICES_ONE ==
  <<"2","0",",","0","0">>

L_PRICES_ODD ==
  <<"1","5",".","0","0"," ","9",",","9","9"," ","1","0",".","0","0","0",",","0","1"," ","1","2","3","4",",","5","6"," ","-","2","5",",","0","0">>

L_ANCHOR ==
  <<"Σ","τ","ο","ι","χ","ε","ί","α"," ","Π","ε","λ","ά","τ","η">>

L_FILLER ==
  <<"1","2",":","3","0">>

L_NAME_MICHAEL ==
  <<"M","I","C","H","A","E","L"," ","A","N","G","E","L","O","U">>

L_NAME_JOHN ==
  <<"J","O","H","N"," ","S","M","I","T","H">>

L_NAME_THREE ==
  <<"A","N","N","A"," ","M","A","R","I","A"," ","P","A","P","A">>

L_PHONE_LABELLED ==
  <<"Τ","η","λ","έ","φ","ω","ν","ο",":"," ","9","9"," ","1","2","3","4","5","6">>

L_INTL ==
  <<"+","3","5","7","9","9","1","2","3","4","5","6">>

L_PHONE_SPACED ==
  <<"9","9"," ","1","2","3","4","5","6">>

L_PHONE_TEL ==
  <<"T","e","l"," ","2","2","1","2","3","4","5","6">>

L_TEN_DIGITS ==
  <<"1","2","9","9","1","2","3","4","5","6">>

L_NAME_LABEL ==
  <<"Ε","Π","Ω","Ν","Υ","Μ","Ι","Α",":">>

L_SURNAME ==
  <<"P","A","P","A","D","O","P","O","U","L","O","S">>

L_CST_P2 ==
  <<"P","2">>

L_CST_DATE ==
  <<"1","2","/","0","5","/","2","0","2","4">>

L_CST_10 ==
  <<"1","2","3","4","5","6","7","8","9","0">>

L_CST_ABCDE ==
  <<"A","B","C","D","E">>

L_CST_CB ==
  <<"C","B","1","2","3","4","5","6","7","8">>

L_CST_MIXED ==
  <<"A","B","C","D","E"," ","A","7"," ","P","2">>

L_CST_DASH ==
  <<"1","-","2"," ","Δ","5">>

L_CST_13 ==
  <<"1","2","3","4","5","6","7","8","9","0","1","2","3">>

L_CST_AB12 ==
  <<"A","B","1","2">>

L_BLANK ==
  <<" "," "," ">>

L_INVOICE_OLD ==
  <<"Α","ρ","."," ","π","α","ρ","α","σ","τ","α","τ","ι","κ","ο","ύ",":"," ","1","2","3","4","5","6","Α","Π","Δ","Α","6","5","4","3","2","1">>

L_INVOICE_NEW ==
  <<"1","2","3","4","5","6","Α","Π","Δ","Α","0","0","0","0","0","1">>

L_SERIAL ==
  <<"Σ","ε","ι","ρ","ι","α","κ","ό","ς",":"," ","3","5"," ","1","2","3","4","5","6"," ","7","8","9","0","1","2"," ","3">>

L_SERIAL_UPPER ==
  <<"Σ","Ε","Ι","Ρ","Ι","Α","Κ","Ό","Σ"," ","1","2","3","4","5","6","7","8","9","0","1","2","3","4","5","6","7","8","9","0","1","2","3","4">>

L_CST_PADDED ==
  <<" ","P","2"," ">>

L_PRICES_NEAR ==
  <<"1","9",",","4","0"," ","1","0","0",",","0","0"," ","1","2","0",",","2","0">>

L_PRICES_SUM5 ==
  <<"1","0",",","0","0"," ","2","0",",","0","0"," ","4","0",",","0","0"," ","8","0",",","0","0"," ","1","5","0",",","0","0">>

L_PRICES_ELEVEN ==
  <<"1","4",",","0","0"," ","2","4",",","0","0"," ","1","2","0",",","0","0"," ","2","0","5",",","0","0"," ","2","2","6",",","0","0"," ","2","8","0",",","0","0"," ","2","8","7",",","0","0"," ","3","4","2",",","0","0"," ","3","6","1",",","0","0"," ","3","8","1",",","0","0"," ","2",".","2","4","0",",","0","0">>

L_PRICES_REJECTED ==
  <<"1","9",",","0","0"," ","1","0","0",",","0","0"," ","1","1","9",",","0","0"," ","2","1","9",",","0","0"," ","2","3","8",",","0","0">>

L_SKU_JBL ==
  <<"3","4","5","6","7","8","9"," ","J","B","L"," ","G","O"," ","3">>

L_PRICES_TWO ==
  <<"2","0",",","0","0"," ","3","0","0",",","0","0">>

L_PRICES_THREE ==
  <<"2","0",",","0","0"," ","5","0",",","0","0"," ","3","0","0",",","0","0">>

L_SKU_BARE2 ==
  <<"2","2","2","2","2","2","2">>

L_DESC_CASE ==
  <<"I","P","H","O","N","E"," ","C","A","S","E">>

L_END_MARKER ==
  <<"Σ","Χ","Ο","Λ","Ι","Α"," ","U","S","B">>

L_SERIAL_CABLE ==
  <<"Σ","ε","ι","ρ","ι","α","κ","ό","ς"," ","U","S","B"," ","C","A","B","L","E">>

L_STOP_CITY ==
  <<"Π","Ο","Λ","Η",":"," ","N","I","C","O","S","I","A">>

L_GIVEN ==
  <<"A","N","N","A">>

L_SKU_PHONE_CABLE ==
  <<"9","9","1","2","3","4","5","6"," ","C","A","B","L","E">>

L_SKU_SUB ==
  <<"9","1","2","3","4","5","6">>

L_HEADER_CODE ==
  <<"3","3","3","3","3","3","3"," ","C","A","B","L","E"," ","Κ","ω","δ","ι","κ","ό","ς"," ","Ε","ί","δ","ο","υ","ς">>

L_INVOICE_LABEL ==
  <<"Α","ρ","."," ","π","α","ρ","α","σ","τ","α","τ","ι","κ","ο","ύ",":">>

L_INVOICE_SHORT ==
  <<"1","2","Α","Π","Δ","Α","3","4">>

L_INVOICE_NEW2 ==
  <<"6","5","4","3","2","1","Α","Π","Δ","Α","0","0","0","0","0","2">>

L_DIGITS_14 ==
  <<"1","2","3","4","5","6","7","8","9","0","1","2","3","4">>

L_SERIAL_13 ==
  <<"Σ","ε","ι","ρ","ι","α","κ","ό","ς",":"," ","1","2","3","4","5","6","7","8","9","0","1","2","3">>

L_LABEL_SHORT ==
  <<"Τ","η","λ","έ","φ","ω","ν","ο",":"," ","1","2","3">>

L_PHONE_TWO ==
  <<"Τ","η","λ","έ","φ","ω","ν","ο",":"," ","2","2","1","2","3","4","5","6"," ","/"," ","9","7","6","5","4","3","2","1">>

L_ANCHOR_PHONE ==
  <<"Σ","τ","ο","ι","χ","ε","ί","α"," ","Π","ε","λ","ά","τ","η"," ","Τ","η","λ","έ","φ","ω","ν","ο",":"," ","9","7","6","5","4","3","2","1">>

(***************************************************************************)
(* The documents of the model.                                             *)
(***************************************************************************)
MaxBody == 3
MaxGap == 12
MaxNew == 3
MaxCst == 2
MaxMisc == 2
MaxFlag == 2
MaxDesc == 4
MaxDescGap == 14
MaxFrag == 3
MaxPhoneGap == 14
MaxPre == 3
MaxInvoice == 2
MaxSerial == 2
MaxPhoneSku == 3

SeqsUpTo(pool, n) == UNION {[1..k -> pool] : k \in 0..n}

RECURSIVE Repeat(_, _)
Repeat(s, k) == IF k = 0 THEN <<>> ELSE <<s>> \o Repeat(s, k - 1)

ItemLines ==
  {L_HEADER, L_SKU_APPLE, L_SKU_BARE, L_SKU_IPHONE, L_SKU_SCREEN,
   L_DESC_CABLE, L_SKU_PHONE}

PriceLines ==
  {L_PRICES_VAT3, L_PRICES_VAT2, L_PRICES_SUM3, L_PRICES_SUM4, L_PRICES_ONE,
   L_PRICES_ODD, L_PRICES_NEAR}

\* an item table followed by at most one line of amounts
ItemDocs ==
  {body \o tail : body \in SeqsUpTo(ItemLines, MaxBody),
                  tail \in {<<>>} \cup {<<p>> : p \in PriceLines}}

\* one SKU and a line of many amounts
ManyPriceDocs ==
  {<<L_HEADER, L_SKU_BARE, p>> : p \in {L_PRICES_SUM5, L_PRICES_ELEVEN}}

\* the anchor, a gap of lines that are no names, then a last line
OldDocs ==
  {pre \o <<L_ANCHOR>> \o Repeat(L_FILLER, k) \o <<last>> :
     pre \in {<<>>, <<L_NAME_JOHN>>}, k \in 0..MaxGap,
     last \in {L_NAME_MICHAEL, L_NAME_THREE, L_PHONE_LABELLED}}

NewLines ==
  {L_INTL, L_PHONE_SPACED, L_PHONE_TEL, L_TEN_DIGITS, L_NAME_LABEL,
   L_SURNAME, L_NAME_MICHAEL}

NewDocs == SeqsUpTo(NewLines, MaxNew)

CstLines ==
  {L_CST_P2, L_CST_DATE, L_CST_10, L_CST_ABCDE, L_CST_CB, L_CST_MIXED,
   L_CST_DASH, L_CST_13, L_CST_AB12}

CstDocs == SeqsUpTo(CstLines, MaxCst)

MiscLines ==
  {L_BLANK, L_INVOICE_OLD, L_INVOICE_NEW, L_SERIAL, L_SERIAL_UPPER,
   L_CST_PADDED}

MiscDocs == SeqsUpTo(MiscLines, MaxMisc)

FlagLines == {L_SKU_PHONE, L_SKU_BARE, L_SKU_SUB}

\* phone numbers before and after the anchor, then a table of bare codes
FlagDocs ==
  {pre \o mid \o <<L_HEADER>> \o body :
     pre \in {<<>>, <<L_PHONE_TEL>>},
     mid \in {<<>>, <<L_ANCHOR>>, <<L_ANCHOR, L_PHONE_LABELLED>>},
     body \in SeqsUpTo(FlagLines, MaxFlag)}

\* a table of codes and amounts of which the noise rejection keeps one
FallbackDocs ==
  {<<L_HEADER>> \o body \o <<L_PRICES_REJECTED>> :
     body \in SeqsUpTo({L_SKU_BARE, L_SKU_APPLE, L_SKU_IPHONE}, MaxFlag)}

TierLines == {L_SKU_JBL, L_SKU_IPHONE, L_SKU_APPLE, L_SKU_SCREEN}

\* items of the four value tiers with as many amounts as items, or not
TierDocs ==
  {<<L_HEADER>> \o body \o <<tail>> :
     body \in SeqsUpTo(TierLines, MaxBody),
     tail \in {L_PRICES_TWO, L_PRICES_THREE}}

DescLines == {L_SKU_BARE, L_SKU_BARE2, L_DESC_CABLE, L_DESC_CASE}

\* bare codes with description lines around them
DescDocs ==
  {<<L_HEADER>> \o body : body \in SeqsUpTo(DescLines, MaxDesc)}

\* one code, a gap of lines that are no descriptions, then a tail
WindowDocs ==
  {<<L_HEADER, L_SKU_BARE>> \o Repeat(L_FILLER, k) \o tail :
     k \in 0..MaxDescGap,
     tail \in {<<L_DESC_CABLE>>, <<L_DESC_CABLE, L_DESC_CASE>>,
               <<L_END_MARKER, L_DESC_CABLE>>, <<L_SERIAL_CABLE>>}}

FragLines == {L_SURNAME, L_GIVEN, L_NAME_MICHAEL, L_STOP_CITY, L_FILLER}

\* the name label followed by name fragments, stop labels and other lines
FragDocs ==
  {<<L_NAME_LABEL>> \o body : body \in SeqsUpTo(FragLines, MaxFrag)}

\* the anchor, a gap of other lines, then lines with and without the
\* phone label; and an anchor line that carries the label itself
PhoneDocs ==
  {<<L_ANCHOR>> \o Repeat(L_FILLER, k) \o tail :
     k \in 0..MaxPhoneGap,
     tail \in {<<L_PHONE_LABELLED>>, <<L_PHONE_TEL, L_PHONE_LABELLED>>,
               <<L_LABEL_SHORT, L_PHONE_TWO>>,
               <<L_PHONE_TWO, L_PHONE_LABELLED>>}}
    \cup {<<L_ANCHOR_PHONE, L_PHONE_LABELLED>>}

PreLines == {L_NAME_JOHN, L_NAME_MICHAEL, L_PHONE_TEL}

\* names and an unlabelled phone number, all before the anchor
PreDocs ==
  {pre \o <<L_ANCHOR>> : pre \in SeqsUpTo(PreLines, MaxPre)}

\* a header line that starts with a code, codes before and after it
HeaderDocs ==
  {pre \o <<L_HEADER_CODE>> \o post :
     pre \in {<<>>, <<L_SKU_SCREEN>>},
     post \in {<<>>, <<L_SKU_APPLE>>, <<L_SKU_APPLE, L_PRICES_ONE>>}}

InvoiceLines ==
  {L_INVOICE_OLD, L_INVOICE_NEW, L_INVOICE_NEW2, L_INVOICE_LABEL,
   L_INVOICE_SHORT}

\* labelled and standalone invoice numbers in every order
InvoiceDocs == SeqsUpTo(InvoiceLines, MaxInvoice)

SerialLines ==
  {L_SERIAL, L_SERIAL_UPPER, L_SERIAL_CABLE, L_SERIAL_13, L_DIGITS_14}

\* serial labels with and without a long number, long numbers without one
SerialDocs == SeqsUpTo(SerialLines, MaxSerial)

\* a customer phone and a table in which the phone number stands alone and
\* leads a line
PhoneSkuDocs ==
  {<<L_ANCHOR, L_PHONE_LABELLED, L_HEADER>> \o body :
     body \in SeqsUpTo({L_SKU_PHONE, L_SKU_PHONE_CABLE, L_SKU_BARE},
                       MaxPhoneSku)}

Docs ==
  ItemDocs \cup ManyPriceDocs \cup OldDocs \cup NewDocs \cup CstDocs
    \cup MiscDocs \cup FlagDocs \cup FallbackDocs \cup TierDocs
    \cup DescDocs \cup WindowDocs \cup FragDocs \cup PhoneDocs
    \cup PreDocs \cup HeaderDocs \cup InvoiceDocs
    \cup SerialDocs \cup PhoneSkuDocs

\* a file is readable with its text lines, or reading it raises
Files ==
  {[readable |-> TRUE, text |-> d] : d \in Docs}
    \cup {[readable |-> FALSE, text |-> <<>>]}

(***************************************************************************)
(* State.                                                                  *)
(***************************************************************************)
VARIABLES
  file,            \* the PDF handed to parse_pdf
  pc,              \* position in parse_pdf / extract
  lines,           \* the lines read by get_lines
  is_old_format,
  invoice, cst,
  strategy,        \* name, surname, phone of the format-specific extractor
  name, surname, phone,
  parsed,          \* the lists built by parse_items
  material, product, serial,
  raw,             \* the dictionary returned by extract ({} if it raised)
  result,          \* the dictionary returned by parse_pdf
  files,           \* request.files.getlist("pdfs") of the /parse_pdfs request
  idx,             \* number of uploads the loop of api_parse_pdfs has handled
  out,             \* the list the handler returns
  parsed_files,    \* the global dictionary id -> ParsedInvoice
  upload_dir,      \* the saved files of PDF_UPLOAD_DIR, by file name
  steps,           \* the steps update_status_and_resolution has called
  tech_success,    \* what assign_technician_robust returned
  res_success,     \* what fill_resolution_field returned
  status_idx,      \* idx of the loop over status_flow
  attempt,         \* attempt of the loop of progress_status_robust
  observed,        \* what the browser showed at the last step of the attempt
  success,         \* what progress_status_robust returned
  page_status,     \* the option selected in the status dropdown of the page
  error,           \* the message of the exception raised, <<>> when none
  tickets_payload, \* the tickets handed to run_ticket_batch
  ticket_idx,      \* idx of the loop over tickets_payload
  results,         \* the list run_ticket_batch builds
  driver,          \* the browser: "none", "open" or "quit"
  parsed_invoice,  \* the ParsedInvoice looked up for the ticket in work
  requests,        \* per client: the locals of its request thread, its page
  created          \* the tickets created, with the invoice each was made of

vars ==
  <<file, pc, lines, is_old_format, invoice, cst, strategy, name, surname,
    phone, parsed, material, product, serial, raw, result, files, idx, out,
    parsed_files, upload_dir, steps, tech_success, res_success, status_idx,
    attempt, observed, success, page_status, error, tickets_payload,
    ticket_idx, results, driver, parsed_invoice, requests, created>>

\* the state of the /parse_pdfs handler
handler == <<files, idx, out, parsed_files, upload_dir>>

\* the state of the ticket automation
automation ==
  <<steps, tech_success, res_success, status_idx, attempt, observed, success,
    page_status, error>>

\* no ticket is being worked on
AutomationIdle ==
  /\ steps = <<>>
  /\ tech_success = FALSE /\ res_success = FALSE
  /\ status_idx = 0 /\ attempt = 0
  /\ observed = "nothing"
  /\ success = FALSE
  /\ page_status = "New"
  /\ error = <<>>

\* the state of run_ticket_batch
batch == <<tickets_payload, ticket_idx, results, driver, parsed_invoice>>

\* no batch is running
BatchIdle ==
  /\ tickets_payload = <<>>
  /\ ticket_idx = 0
  /\ results = <<>>
  /\ driver = "none"
  /\ parsed_invoice = <<>>

\* the threads of the server and the tickets they created
server == <<requests, created>>

\* no client has sent a request
ServerIdle ==
  /\ requests = <<>>
  /\ created = {}

NoItems ==
  [skus |-> <<>>, standalone_descriptions |-> <<>>, all_prices |-> <<>>,
   filtered |-> <<>>,
   product_prices |-> <<>>, items |-> <<>>]

EmptyDict == <<>>

Init ==
  /\ file \in Files
  /\ pc = "start"
  /\ lines = <<>>
  /\ is_old_format = FALSE
  /\ invoice = <<>> /\ cst = <<>>
  /\ strategy = [name |-> <<>>, surname |-> <<>>, phone |-> <<>>]
  /\ name = <<>> /\ surname = <<>> /\ phone = <<>>
  /\ parsed = NoItems
  /\ material = <<>> /\ product = <<>> /\ serial = <<>>
  /\ raw = EmptyDict
  /\ result = EmptyDict
  /\ files = <<>> /\ idx = 0 /\ out = <<>>
  /\ parsed_files = EmptyDict /\ upload_dir = EmptyDict
  /\ AutomationIdle
  /\ BatchIdle
  /\ ServerIdle

(***************************************************************************)
(* Steps of parse_pdf(path) -> extract(path).                              *)
(***************************************************************************)
\* lines = get_lines(pdf_path)
GetLines ==
  /\ pc = "start"
  /\ file.readable
  /\ lines' = get_lines(file.text)
  /\ pc' = "lines"
  /\ UNCHANGED <<file, is_old_format, invoice, cst, strategy, name, surname,
                 phone, parsed, material, product, serial, raw, result>>
  /\ UNCHANGED handler
  /\ UNCHANGED automation
  /\ UNCHANGED batch
  /\ UNCHANGED server

\* extract_pages raises: extract is left by the exception
GetLinesRaises ==
  /\ pc = "start"
  /\ ~file.readable
  /\ pc' = "raised"
  /\ UNCHANGED <<file, lines, is_old_format, invoice, cst, strategy, name,
                 surname, phone, parsed, material, product, serial, raw,
                 result>>
  /\ UNCHANGED handler
  /\ UNCHANGED automation
  /\ UNCHANGED batch
  /\ UNCHANGED server

\* FallbackName with name and surname initialised to None instead of ""
FallbackName_None(ls) ==
  LET i == FirstIdx({ix \in 1..Len(ls) : looks_like_name(ls[ix])})
  IN  IF i # 0 THEN SplitName(ls[i]) ELSE [name |-> None, surname |-> None]

\* FallbackName taking the last name-like line
FallbackName_Last(ls) ==
  LET S == {ix \in 1..Len(ls) : looks_like_name(ls[ix])}
  IN  IF S # {} THEN SplitName(ls[CHOOSE i \in S : \A k \in S : k <= i])
      ELSE [name |-> <<>>, surname |-> <<>>]

\* the name of the first name-like line anywhere
FallbackName(ls) ==
  LET i == FirstIdx({ix \in 1..Len(ls) : looks_like_name(ls[ix])})
  IN  IF i # 0 THEN SplitName(ls[i]) ELSE [name |-> <<>>, surname |-> <<>>]

\* format detection, invoice, CST code, name and phone with their fallbacks
ExtractIdentity ==
  /\ pc = "lines"
  /\ LET full == FullText(lines)
         old  == \E i \in 1..Len(lines) : Contains(lines[i], ANCHOR)
         s    == IF old THEN extract_name_phone_old_format(lines)
                 ELSE extract_name_phone_new_format(lines)
         fb   == FallbackName(lines)
     IN  /\ is_old_format' = old
         /\ invoice' = extract_invoice(lines, full)
         /\ cst' = extract_cst(lines, full)
         /\ strategy' = s
         /\ name' = IF s.name # <<>> THEN s.name ELSE fb.name
         /\ surname' = IF s.name # <<>> \/ fb.name = <<>>
                         THEN s.surname ELSE fb.surname
         /\ phone' = IF s.phone # <<>> THEN s.phone ELSE ScanPhone8(lines)
  /\ pc' = "identity"
  /\ UNCHANGED <<file, lines, parsed, material, product, serial, raw, result>>
  /\ UNCHANGED handler
  /\ UNCHANGED automation
  /\ UNCHANGED batch
  /\ UNCHANGED server

\* ParseItems with no phone number to exclude
ParseItems_NoPhone ==
  /\ pc = "identity"
  /\ parsed' = parse_items(lines, <<>>)
  /\ pc' = "items"
  /\ UNCHANGED <<file, lines, is_old_format, invoice, cst, strategy, name,
                 surname, phone, material, product, serial, raw, result>>
  /\ UNCHANGED handler
  /\ UNCHANGED automation
  /\ UNCHANGED batch
  /\ UNCHANGED server

\* items = parse_items(lines, phone_to_exclude=phone)
ParseItems ==
  /\ pc = "identity"
  /\ parsed' = parse_items(lines, phone)
  /\ pc' = "items"
  /\ UNCHANGED <<file, lines, is_old_format, invoice, cst, strategy, name,
                 surname, phone, material, product, serial, raw, result>>
  /\ UNCHANGED handler
  /\ UNCHANGED automation
  /\ UNCHANGED batch
  /\ UNCHANGED server

\* the canonical item, the serial number and the returned dictionary
ExtractReturn ==
  /\ pc = "items"
  /\ LET best == IF parsed.items # <<>> THEN BestItem(parsed.items)
                 ELSE [sku |-> <<>>, desc |-> <<>>, gross |-> NoPrice]
         ser  == extract_serial(lines, FullText(lines))
     IN  /\ material' = best.sku
         /\ product' = best.desc
         /\ serial' = ser
         /\ raw' = [k \in ExtractKeys |->
                      CASE k = "name" -> name
                        [] k = "surname" -> surname
                        [] k = "phone" -> phone
                        [] k = "invoice" -> invoice
                        [] k = "cst code" -> cst
                        [] k = "material" -> best.sku
                        [] k = "product" -> best.desc
                        [] k = "serial" -> ser]
  /\ pc' = "returned"
  /\ UNCHANGED <<file, lines, is_old_format, invoice, cst, strategy, name,
                 surname, phone, parsed, result>>
  /\ UNCHANGED handler
  /\ UNCHANGED automation
  /\ UNCHANGED batch
  /\ UNCHANGED server

\* parse_pdf: raw is the dictionary of extract, or {} when extract raised
ParsePdfReturn ==
  /\ pc \in {"returned", "raised"}
  /\ result' = [k \in ResultKeys |->
                  ensure_dot(RawGet(raw, IF k = "cstcode" THEN "cst code"
                                         ELSE k))]
  /\ pc' = "done"
  /\ UNCHANGED <<file, lines, is_old_format, invoice, cst, strategy, name,
                 surname, phone, parsed, material, product, serial, raw>>
  /\ UNCHANGED handler
  /\ UNCHANGED automation
  /\ UNCHANGED batch
  /\ UNCHANGED server

Next ==
  \/ GetLines
  \/ GetLinesRaises
  \/ ExtractIdentity
  \/ ParseItems
  \/ ExtractReturn
  \/ ParsePdfReturn

Spec == Init /\ [][Next]_vars

(***************************************************************************)
(* The /parse_pdfs handler api_parse_pdfs (TICKETER.py).                   *)
(***************************************************************************)
PDF_UPLOAD_DIR == <<"u","p","l","o","a","d","s">>

PDF_SUFFIX == <<".","p","d","f">>

\* str(n) of a natural number
RECURSIVE Str(_)
Str(n) ==
  LET d == CHOOSE c \in Digit : DigitVal(c) = n % 10
  IN  IF n < 10 THEN <<d>> ELSE Str(n \div 10) \o <<d>>

\* s.endswith(suffix)
EndsWith(s, suffix) ==
  /\ Len(s) >= Len(suffix)
  /\ SubSeq(s, Len(s) - Len(suffix) + 1, Len(s)) = suffix

\* f.filename.lower().endswith(".pdf")
IsPdfName(filename) == EndsWith(Lower(filename), PDF_SUFFIX)

\* file_id with every upload given the id "1"
file_id_Fixed(i) == Str(1)

\* file_id = str(idx + 1), idx the 0-based position among all uploads
file_id(i) == Str(i + 1)

\* os.path.join(PDF_UPLOAD_DIR, safe_name)
PathOf(filename) == PDF_UPLOAD_DIR \o <<"/">> \o filename

\* dictionary d with d[key] = value
DictSet(d, key, value) ==
  [k \in DOMAIN d \cup {key} |-> IF k = key THEN value ELSE d[k]]

F_PDF == <<"a",".","p","d","f">>
F_PDF_UPPER == <<"B",".","P","D","F">>
F_TXT == <<"n","o","t","e","s",".","t","x","t">>

D_ITEM == <<L_HEADER, L_SKU_APPLE, L_NAME_MICHAEL, L_PRICES_ONE>>
D_IDENTITY == <<L_NAME_JOHN, L_INTL, L_CST_PADDED>>

MaxUploads == 3

\* the uploads of a request: a file name and the file's content
Uploads ==
  {[filename |-> F_PDF, content |-> [readable |-> TRUE, text |-> D_ITEM]],
   [filename |-> F_PDF, content |-> [readable |-> TRUE, text |-> <<>>]],
   [filename |-> F_PDF_UPPER,
    content |-> [readable |-> TRUE, text |-> D_IDENTITY]],
   [filename |-> F_PDF_UPPER, content |-> [readable |-> FALSE, text |-> <<>>]],
   [filename |-> F_TXT, content |-> [readable |-> TRUE, text |-> D_ITEM]]}

\* parsed_files as an earlier request left it
StaleParsedFiles ==
  DictSet(EmptyDict, Str(1),
          [id |-> Str(1), filename |-> F_PDF, path |-> PathOf(F_PDF),
           fields |-> [k \in ResultKeys |-> <<".">>]])

UploadInit ==
  /\ files \in SeqsUpTo(Uploads, MaxUploads)
  /\ pc = "request"
  /\ idx = 0 /\ out = <<>>
  /\ parsed_files \in {EmptyDict, StaleParsedFiles}
  /\ upload_dir = EmptyDict
  /\ file = [readable |-> FALSE, text |-> <<>>]
  /\ lines = <<>>
  /\ is_old_format = FALSE
  /\ invoice = <<>> /\ cst = <<>>
  /\ strategy = [name |-> <<>>, surname |-> <<>>, phone |-> <<>>]
  /\ name = <<>> /\ surname = <<>> /\ phone = <<>>
  /\ parsed = NoItems
  /\ material = <<>> /\ product = <<>> /\ serial = <<>>
  /\ raw = EmptyDict
  /\ result = EmptyDict
  /\ AutomationIdle
  /\ BatchIdle
  /\ ServerIdle

\* the variables that parse_pdf and extract leave alone in the handler's steps
pipeline ==
  <<file, lines, is_old_format, invoice, cst, strategy, name, surname, phone,
    parsed, material, product, serial, raw, result>>

\* global parsed_files; parsed_files = {}; out = []
ApiParsePdfs ==
  /\ pc = "request"
  /\ parsed_files' = EmptyDict
  /\ out' = <<>>
  /\ idx' = 0
  /\ pc' = "loop"
  /\ UNCHANGED <<files, upload_dir>>
  /\ UNCHANGED pipeline
  /\ UNCHANGED automation
  /\ UNCHANGED batch
  /\ UNCHANGED server

\* an upload whose name does not end in .pdf: continue
SkipNonPdf ==
  /\ pc = "loop"
  /\ idx < Len(files)
  /\ ~IsPdfName(files[idx + 1].filename)
  /\ idx' = idx + 1
  /\ UNCHANGED <<pc, files, out, parsed_files, upload_dir>>
  /\ UNCHANGED pipeline
  /\ UNCHANGED automation
  /\ UNCHANGED batch
  /\ UNCHANGED server

\* f.save(path); fields = parse_pdf(path): a fresh call of parse_pdf
SaveAndParse ==
  /\ pc = "loop"
  /\ idx < Len(files)
  /\ IsPdfName(files[idx + 1].filename)
  /\ upload_dir' = DictSet(upload_dir, files[idx + 1].filename,
                           files[idx + 1].content)
  /\ file' = upload_dir'[files[idx + 1].filename]
  /\ lines' = <<>>
  /\ is_old_format' = FALSE
  /\ invoice' = <<>> /\ cst' = <<>>
  /\ strategy' = [name |-> <<>>, surname |-> <<>>, phone |-> <<>>]
  /\ name' = <<>> /\ surname' = <<>> /\ phone' = <<>>
  /\ parsed' = NoItems
  /\ material' = <<>> /\ product' = <<>> /\ serial' = <<>>
  /\ raw' = EmptyDict
  /\ result' = EmptyDict
  /\ pc' = "start"
  /\ UNCHANGED <<files, idx, out, parsed_files>>
  /\ UNCHANGED automation
  /\ UNCHANGED batch
  /\ UNCHANGED server

\* normalized = {...}; parsed_files[file_id] = parsed; out.append({...})
StoreParsed ==
  /\ pc = "done"
  /\ idx < Len(files)
  /\ LET safe_name  == files[idx + 1].filename
         normalized == [k \in ResultKeys |-> ensure_dot(RawGet(result, k))]
         id         == file_id(idx)
     IN  /\ parsed_files' =
               DictSet(parsed_files, id,
                       [id |-> id, filename |-> safe_name,
                        path |-> PathOf(safe_name), fields |-> normalized])
         /\ out' = Append(out, [id |-> id, filename |-> safe_name,
                                fields |-> normalized])
  /\ idx' = idx + 1
  /\ pc' = "loop"
  /\ UNCHANGED <<files, upload_dir>>
  /\ UNCHANGED pipeline
  /\ UNCHANGED automation
  /\ UNCHANGED batch
  /\ UNCHANGED server

\* return jsonify({"files": out})
Respond ==
  /\ pc = "loop"
  /\ idx = Len(files)
  /\ pc' = "responded"
  /\ UNCHANGED handler
  /\ UNCHANGED pipeline
  /\ UNCHANGED automation
  /\ UNCHANGED batch
  /\ UNCHANGED server

UploadNext ==
  \/ ApiParsePdfs
  \/ SkipNonPdf
  \/ SaveAndParse
  \/ GetLines
  \/ GetLinesRaises
  \/ ExtractIdentity
  \/ ParseItems
  \/ ExtractReturn
  \/ ParsePdfReturn
  \/ StoreParsed
  \/ Respond

UploadSpec == UploadInit /\ [][UploadNext]_vars

(***************************************************************************)
(* The ticket workflow of TICKETER.py: update_status_and_resolution and    *)
(* progress_status_robust.  What the browser answers is chosen freely.     *)
(***************************************************************************)
max_retries_Four == 3 + 1

max_retries == 3

status_flow ==
  <<"With Technician", "In-house Repair", "Final Check", "Ready for Pickup",
    "Closed">>

\* status_mapping.get(target_status, target_status)
status_mapping(target_status) ==
  CASE target_status = "In House Repair" -> "In-house Repair"
    [] target_status = "Ready" -> "Ready for Pickup"
    [] OTHER -> target_status

\* str(e) of a selenium TimeoutException raised without a message
TIMEOUT_MESSAGE == <<"Message: ">>

\* the steps of the workflow leave the parser, the upload handler and the
\* batch alone
parsing == <<pipeline, handler, batch, server>>

\* wait_for_element(driver, By.ID, "ticketID"): raise on a timeout
WfEditPage ==
  /\ pc = "workflow"
  /\ \E found \in BOOLEAN :
        IF found
          THEN pc' = "technician" /\ UNCHANGED error
          ELSE pc' = "ticket_raised" /\ error' = TIMEOUT_MESSAGE
  /\ UNCHANGED <<steps, tech_success, res_success, status_idx, attempt,
                 observed, success, page_status>>
  /\ UNCHANGED parsing

\* tech_success = assign_technician_robust(driver): a failure is logged only
WfTechnician ==
  /\ pc = "technician"
  /\ \E r \in BOOLEAN :
        /\ tech_success' = r
        /\ steps' = Append(steps, [step |-> "technician",
                                   ok |-> IF r THEN "ok" ELSE "failed"])
  /\ pc' = "resolution"
  /\ UNCHANGED <<res_success, status_idx, attempt, observed, success,
                 page_status, error>>
  /\ UNCHANGED parsing

\* res_success = fill_resolution_field(driver, ticket_type); raise if not
WfResolution ==
  /\ pc = "resolution"
  /\ \E r \in BOOLEAN :
        /\ res_success' = r
        /\ steps' = Append(steps, [step |-> "resolution",
                                   ok |-> IF r THEN "ok" ELSE "failed"])
        /\ IF r
             THEN pc' = "status" /\ status_idx' = 1 /\ UNCHANGED error
             ELSE /\ pc' = "ticket_raised"
                  /\ error' = <<"Resolution field filling failed">>
                  /\ UNCHANGED status_idx
  /\ UNCHANGED <<tech_success, attempt, observed, success, page_status>>
  /\ UNCHANGED parsing

\* success = progress_status_robust(driver, status_text, idx, total_steps)
WfNextStatus ==
  /\ pc = "status"
  /\ status_idx <= Len(status_flow)
  /\ steps' = Append(steps, [step |-> status_flow[status_idx],
                             ok |-> "pending"])
  /\ attempt' = 1
  /\ observed' = "nothing"
  /\ pc' = "attempt"
  /\ UNCHANGED <<tech_success, res_success, status_idx, success, page_status,
                 error>>
  /\ UNCHANGED parsing

\* the attempt failed with an exception: the next attempt, or after the
\* last one the end of the loop and return False
PsRetry(obs) ==
  /\ observed' = obs
  /\ IF attempt < max_retries
       THEN attempt' = attempt + 1 /\ pc' = "attempt" /\ UNCHANGED success
       ELSE pc' = "ps_return" /\ success' = FALSE /\ UNCHANGED attempt

\* return value
PsReturn(obs, value) ==
  /\ observed' = obs
  /\ success' = value
  /\ pc' = "ps_return"
  /\ UNCHANGED attempt

\* if "/tickets/edittickets" not in current_url: return False
PsCheckUrl ==
  /\ pc = "attempt"
  /\ \E url \in {"edit", "other", "error"} :
        CASE url = "edit" ->
               /\ observed' = "edit_page" /\ pc' = "dropdown"
               /\ UNCHANGED <<attempt, success>>
          [] url = "other" -> PsReturn("wrong_page", FALSE)
          [] url = "error" -> PsRetry("error")
  /\ UNCHANGED <<steps, tech_success, res_success, status_idx, page_status,
                 error>>
  /\ UNCHANGED parsing

\* status_select = wait_for_element(driver, By.ID, "ticketstatusID", ...)
PsFindDropdown ==
  /\ pc = "dropdown"
  /\ \E r \in {"found", "error"} :
        IF r = "found"
          THEN /\ observed' = "dropdown" /\ pc' = "option"
               /\ UNCHANGED <<attempt, success>>
          ELSE PsRetry("error")
  /\ UNCHANGED <<steps, tech_success, res_success, status_idx, page_status,
                 error>>
  /\ UNCHANGED parsing

\* the option whose text is status_to_select; return False without one
PsFindOption ==
  /\ pc = "option"
  /\ \E r \in {"present", "absent", "error"} :
        CASE r = "present" ->
               /\ observed' = "option" /\ pc' = "select"
               /\ UNCHANGED <<attempt, success>>
          [] r = "absent" -> PsReturn("no_option", FALSE)
          [] r = "error" -> PsRetry("error")
  /\ UNCHANGED <<steps, tech_success, res_success, status_idx, page_status,
                 error>>
  /\ UNCHANGED parsing

\* select_obj.select_by_value(target_value)
PsSelect ==
  /\ pc = "select"
  /\ \E r \in {"selected", "error"} :
        IF r = "selected"
          THEN /\ page_status' = status_mapping(status_flow[status_idx])
               /\ observed' = "selected" /\ pc' = "save"
               /\ UNCHANGED <<attempt, success>>
          ELSE PsRetry("error") /\ UNCHANGED page_status
  /\ UNCHANGED <<steps, tech_success, res_success, status_idx, error>>
  /\ UNCHANGED parsing

\* fun_save_ticket_status and the confirmation popup: their exceptions are
\* logged and the attempt goes on
PsSave ==
  /\ pc = "save"
  /\ \E saved \in BOOLEAN :
        observed' = IF saved THEN "saved" ELSE "save_failed"
  /\ pc' = "verify"
  /\ UNCHANGED <<steps, tech_success, res_success, status_idx, attempt,
                 success, page_status, error>>
  /\ UNCHANGED parsing

\* wait_for_element(driver, By.ID, "ticketstatusID", timeout=10): return
\* True; on a TimeoutException the next attempt, or return True after the
\* last one
PsVerify ==
  /\ pc = "verify"
  /\ \E r \in {"found", "timeout", "error"} :
        CASE r = "found" -> PsReturn("verified", TRUE)
          [] r = "timeout" ->
               IF attempt < max_retries
                 THEN PsRetry("unverified")
                 ELSE PsReturn("unverified", TRUE)
          [] r = "error" -> PsRetry("error")
  /\ UNCHANGED <<steps, tech_success, res_success, status_idx, page_status,
                 error>>
  /\ UNCHANGED parsing

\* WfStatusReturn going on to the next status after a failure
WfStatusReturn_GoOn ==
  /\ pc = "ps_return"
  /\ steps' = [steps EXCEPT ![Len(steps)].ok =
                 IF success THEN "ok" ELSE "failed"]
  /\ status_idx' = status_idx + 1
  /\ pc' = "status"
  /\ UNCHANGED <<tech_success, res_success, attempt, observed, success,
                 page_status, error>>
  /\ UNCHANGED parsing

\* if not success: raise Exception(f"Status progression failed at: ...")
WfStatusReturn ==
  /\ pc = "ps_return"
  /\ steps' = [steps EXCEPT ![Len(steps)].ok =
                 IF success THEN "ok" ELSE "failed"]
  /\ IF success
       THEN /\ status_idx' = status_idx + 1
            /\ pc' = "status"
            /\ UNCHANGED error
       ELSE /\ pc' = "ticket_raised"
            /\ error' = <<"Status progression failed at: ",
                          status_flow[status_idx]>>
            /\ UNCHANGED status_idx
  /\ UNCHANGED <<tech_success, res_success, attempt, observed, success,
                 page_status>>
  /\ UNCHANGED parsing

\* the loop over status_flow has ended: the workflow returns
WfCompleted ==
  /\ pc = "status"
  /\ status_idx > Len(status_flow)
  /\ pc' = "ticket_done"
  /\ UNCHANGED automation
  /\ UNCHANGED parsing

\* the browser on the edit page of a ticket that was just saved
WorkflowInit ==
  /\ pc = "workflow"
  /\ files = <<>> /\ idx = 0 /\ out = <<>>
  /\ parsed_files = EmptyDict /\ upload_dir = EmptyDict
  /\ file = [readable |-> FALSE, text |-> <<>>]
  /\ lines = <<>>
  /\ is_old_format = FALSE
  /\ invoice = <<>> /\ cst = <<>>
  /\ strategy = [name |-> <<>>, surname |-> <<>>, phone |-> <<>>]
  /\ name = <<>> /\ surname = <<>> /\ phone = <<>>
  /\ parsed = NoItems
  /\ material = <<>> /\ product = <<>> /\ serial = <<>>
  /\ raw = EmptyDict
  /\ result = EmptyDict
  /\ AutomationIdle
  /\ BatchIdle
  /\ ServerIdle

\* update_status_and_resolution with progress_status_robust
WorkflowNext ==
  \/ WfEditPage
  \/ WfTechnician
  \/ WfResolution
  \/ WfNextStatus
  \/ PsCheckUrl
  \/ PsFindDropdown
  \/ PsFindOption
  \/ PsSelect
  \/ PsSave
  \/ PsVerify
  \/ WfStatusReturn
  \/ WfCompleted

WorkflowSpec == WorkflowInit /\ [][WorkflowNext]_vars

(***************************************************************************)
(* run_ticket_batch (TICKETER.py) with create_single_ticket.               *)
(***************************************************************************)
UNKNOWN_FILENAME == <<"(","u","n","k","n","o","w","n",")">>

NOT_FOUND_MESSAGE == <<"Parsed invoice not found in server memory.">>

\* the keys run_ticket_batch reads of a ticket, in the order it reads them
TicketKeys == <<"id", "ticket_type", "store">>

\* str(KeyError(key)) of the first key the ticket lacks, <<>> when none
KeyErrorOf(t) ==
  LET missing == {k \in 1..Len(TicketKeys) : TicketKeys[k] \notin DOMAIN t}
  IN  IF missing = {} THEN <<>>
      ELSE <<"KeyError", TicketKeys[FirstIdx(missing)]>>

\* the messages create_single_ticket raises with before the edit page
FormErrors ==
  {<<"Failed to click Add Customer button">>,
   <<"Failed to click Save Ticket button">>, TIMEOUT_MESSAGE}

\* the messages login_if_needed raises with
LoginErrors == {<<"Login button not found">>, TIMEOUT_MESSAGE}

\* the parser and the upload handler, which a batch leaves alone
uploading == <<pipeline, files, idx, out, parsed_files, upload_dir, server>>

\* the locals of the workflow of one ticket
ticket_work ==
  <<steps, tech_success, res_success, status_idx, attempt, observed, success,
    page_status>>

\* the locals of create_single_ticket are gone, the next ticket gets a new
\* page
FreshTicket ==
  /\ steps' = <<>>
  /\ tech_success' = FALSE /\ res_success' = FALSE
  /\ status_idx' = 0 /\ attempt' = 0
  /\ observed' = "nothing"
  /\ success' = FALSE
  /\ page_status' = "New"

\* the finally clause: if driver is not None: driver.quit(); "quit" stands
\* for quit() having been called, an exception of which is only logged
Finally == driver' = IF driver = "none" THEN "none" ELSE "quit"

\* driver = get_driver(); an exception leaves through the finally clause
GetDriver ==
  /\ pc = "batch"
  /\ \E ok \in BOOLEAN :
        IF ok
          THEN driver' = "open" /\ pc' = "login" /\ UNCHANGED error
          ELSE /\ Finally
               /\ pc' = "batch_raised"
               /\ error' = <<"WebDriverException">>
  /\ UNCHANGED <<tickets_payload, ticket_idx, results, parsed_invoice>>
  /\ UNCHANGED ticket_work
  /\ UNCHANGED uploading

\* login_if_needed(driver, crm_username, crm_password)
Login ==
  /\ pc = "login"
  /\ \/ /\ pc' = "ticket"
        /\ ticket_idx' = 1
        /\ UNCHANGED <<driver, error>>
     \/ \E e \in LoginErrors :
          /\ Finally
          /\ pc' = "batch_raised"
          /\ error' = e
          /\ UNCHANGED ticket_idx
  /\ UNCHANGED <<tickets_payload, results, parsed_invoice>>
  /\ UNCHANGED ticket_work
  /\ UNCHANGED uploading

\* fid = t["id"]; ticket_type = t["ticket_type"]; store = t["store"]: a
\* missing key raises KeyError out of the loop, through the finally clause
TicketKeyError ==
  /\ pc = "ticket"
  /\ ticket_idx <= Len(tickets_payload)
  /\ KeyErrorOf(tickets_payload[ticket_idx]) # <<>>
  /\ Finally
  /\ pc' = "batch_raised"
  /\ error' = KeyErrorOf(tickets_payload[ticket_idx])
  /\ UNCHANGED <<tickets_payload, ticket_idx, results, parsed_invoice>>
  /\ UNCHANGED ticket_work
  /\ UNCHANGED uploading

\* parsed = parsed_files.get(str(fid)); if not parsed: ...; continue
MissingInvoice ==
  /\ pc = "ticket"
  /\ ticket_idx <= Len(tickets_payload)
  /\ KeyErrorOf(tickets_payload[ticket_idx]) = <<>>
  /\ tickets_payload[ticket_idx]["id"] \notin DOMAIN parsed_files
  /\ results' = Append(results,
                       [id |-> tickets_payload[ticket_idx]["id"],
                        filename |-> UNKNOWN_FILENAME,
                        success |-> FALSE,
                        error |-> NOT_FOUND_MESSAGE])
  /\ ticket_idx' = ticket_idx + 1
  /\ UNCHANGED <<pc, tickets_payload, driver, parsed_invoice, error>>
  /\ UNCHANGED ticket_work
  /\ UNCHANGED uploading

\* parsed = parsed_files.get(str(fid)); create_single_ticket(driver, parsed,
\* ticket_type, store) is entered
StartTicket ==
  /\ pc = "ticket"
  /\ ticket_idx <= Len(tickets_payload)
  /\ KeyErrorOf(tickets_payload[ticket_idx]) = <<>>
  /\ tickets_payload[ticket_idx]["id"] \in DOMAIN parsed_files
  /\ parsed_invoice' = parsed_files[tickets_payload[ticket_idx]["id"]]
  /\ pc' = "form"
  /\ UNCHANGED <<tickets_payload, ticket_idx, results, driver, error>>
  /\ UNCHANGED ticket_work
  /\ UNCHANGED uploading

\* create_single_ticket up to the edit page: the form is filled and saved,
\* or one of its steps raises
CreateForm ==
  /\ pc = "form"
  /\ \/ pc' = "workflow" /\ UNCHANGED error
     \/ \E e \in FormErrors : pc' = "ticket_raised" /\ error' = e
  /\ UNCHANGED batch
  /\ UNCHANGED ticket_work
  /\ UNCHANGED uploading

\* create_single_ticket returned: results.append({... "success": True ...})
RecordSuccess ==
  /\ pc = "ticket_done"
  /\ results' = Append(results,
                       [id |-> tickets_payload[ticket_idx]["id"],
                        filename |-> parsed_invoice.filename,
                        success |-> TRUE,
                        error |-> <<>>])
  /\ ticket_idx' = ticket_idx + 1
  /\ parsed_invoice' = <<>>
  /\ pc' = "ticket"
  /\ FreshTicket
  /\ UNCHANGED <<tickets_payload, driver, error>>
  /\ UNCHANGED uploading

\* RecordFailure ending the batch at the first ticket that raises
RecordFailure_Abort ==
  /\ pc = "ticket_raised"
  /\ Finally
  /\ pc' = "batch_raised"
  /\ FreshTicket
  /\ UNCHANGED <<tickets_payload, ticket_idx, results, parsed_invoice, error>>
  /\ UNCHANGED uploading

\* except Exception as e: results.append({... "success": False,
\* "error": str(e)})
RecordFailure ==
  /\ pc = "ticket_raised"
  /\ results' = Append(results,
                       [id |-> tickets_payload[ticket_idx]["id"],
                        filename |-> parsed_invoice.filename,
                        success |-> FALSE,
                        error |-> error])
  /\ ticket_idx' = ticket_idx + 1
  /\ parsed_invoice' = <<>>
  /\ error' = <<>>
  /\ pc' = "ticket"
  /\ FreshTicket
  /\ UNCHANGED <<tickets_payload, driver>>
  /\ UNCHANGED uploading

\* the loop has ended: the finally clause, then return results
BatchReturn ==
  /\ pc = "ticket"
  /\ ticket_idx > Len(tickets_payload)
  /\ Finally
  /\ pc' = "batch_returned"
  /\ UNCHANGED <<tickets_payload, ticket_idx, results, parsed_invoice, error>>
  /\ UNCHANGED ticket_work
  /\ UNCHANGED uploading

T_FIRST == [id |-> Str(1), ticket_type |-> "PROMO", store |-> "NICOSIA"]
T_SECOND == [id |-> Str(2), ticket_type |-> "NORMAL", store |-> "LIMASSOL"]
T_ABSENT == [id |-> Str(9), ticket_type |-> "NORMAL", store |-> "NICOSIA"]
T_NO_STORE == [id |-> Str(1), ticket_type |-> "NORMAL"]

MaxTickets == 2

Tickets == {T_FIRST, T_SECOND, T_ABSENT, T_NO_STORE}

\* parsed_files as a /parse_pdfs request with two unreadable files left it
BatchParsedFiles ==
  DictSet(StaleParsedFiles, Str(2),
          [id |-> Str(2), filename |-> F_PDF_UPPER,
           path |-> PathOf(F_PDF_UPPER),
           fields |-> [k \in ResultKeys |-> <<".">>]])

BatchInit ==
  /\ tickets_payload \in SeqsUpTo(Tickets, MaxTickets)
  /\ pc = "batch"
  /\ ticket_idx = 0
  /\ results = <<>>
  /\ driver = "none"
  /\ parsed_invoice = <<>>
  /\ parsed_files = BatchParsedFiles
  /\ files = <<>> /\ idx = 0 /\ out = <<>>
  /\ upload_dir = EmptyDict
  /\ file = [readable |-> FALSE, text |-> <<>>]
  /\ lines = <<>>
  /\ is_old_format = FALSE
  /\ invoice = <<>> /\ cst = <<>>
  /\ strategy = [name |-> <<>>, surname |-> <<>>, phone |-> <<>>]
  /\ name = <<>> /\ surname = <<>> /\ phone = <<>>
  /\ parsed = NoItems
  /\ material = <<>> /\ product = <<>> /\ serial = <<>>
  /\ raw = EmptyDict
  /\ result = EmptyDict
  /\ AutomationIdle
  /\ ServerIdle

BatchNext ==
  \/ GetDriver
  \/ Login
  \/ TicketKeyError
  \/ MissingInvoice
  \/ StartTicket
  \/ CreateForm
  \/ WfEditPage
  \/ WfTechnician
  \/ WfResolution
  \/ WfNextStatus
  \/ PsCheckUrl
  \/ PsFindDropdown
  \/ PsFindOption
  \/ PsSelect
  \/ PsSave
  \/ PsVerify
  \/ WfStatusReturn
  \/ WfCompleted
  \/ RecordSuccess
  \/ RecordFailure
  \/ BatchReturn

BatchSpec == BatchInit /\ [][BatchNext]_vars

(***************************************************************************)
(* The server: /parse_pdfs and /create_tickets requests of several         *)
(* clients, each handled by a thread of its own, on the one global         *)
(* parsed_files.                                                           *)
(***************************************************************************)
\* the dictionary extract returns for the lines ls, the format-specific
\* strategy having returned s, the phone being ph and the items its
ExtractDict(ls, s, ph, its) ==
  LET full == FullText(ls)
      fb   == FallbackName(ls)
      best == IF its # <<>> THEN BestItem(its)
              ELSE [sku |-> <<>>, desc |-> <<>>, gross |-> NoPrice]
  IN  [k \in ExtractKeys |->
         CASE k = "name" -> IF s.name # <<>> THEN s.name ELSE fb.name
           [] k = "surname" -> IF s.name # <<>> \/ fb.name = <<>>
                                 THEN s.surname ELSE fb.surname
           [] k = "phone" -> ph
           [] k = "invoice" -> extract_invoice(ls, full)
           [] k = "cst code" -> extract_cst(ls, full)
           [] k = "material" -> best.sku
           [] k = "product" -> best.desc
           [] k = "serial" -> extract_serial(ls, full)]

\* the tuple of every variable but those of the server
single == <<pipeline, files, idx, out, automation, batch>>

MaxServerFiles == 1

Clients == {"A", "B"}

\* the uploads a client of the server sends
ServerUploads ==
  {[filename |-> F_PDF,
    content |-> [readable |-> TRUE, text |-> <<L_INVOICE_OLD>>]],
   [filename |-> F_PDF_UPPER,
    content |-> [readable |-> TRUE, text |-> <<L_CST_PADDED>>]],
   [filename |-> F_TXT,
    content |-> [readable |-> TRUE, text |-> <<L_INVOICE_OLD>>]]}

\* a client that has sent nothing yet
NoRequest ==
  [at |-> "new", files |-> <<>>, idx |-> 0, out |-> <<>>, page |-> <<>>,
   ticket_idx |-> 0]

\* requests with the locals of client c's thread replaced by those of new
Thread(c, new) ==
  [requests EXCEPT ![c] = [k \in DOMAIN NoRequest |->
                             IF k \in DOMAIN new THEN new[k] ELSE @[k]]]

\* client c posts /parse_pdfs: global parsed_files; parsed_files = {};
\* files = request.files.getlist("pdfs"); out = []
SrvParsePdfs(c) ==
  /\ requests[c].at = "new"
  /\ \E fs \in SeqsUpTo(ServerUploads, MaxServerFiles) :
        requests' = Thread(c, [at |-> "loop", files |-> fs, idx |-> 0,
                               out |-> <<>>])
  /\ parsed_files' = EmptyDict
  /\ UNCHANGED <<pc, upload_dir, created>>
  /\ UNCHANGED single

\* one iteration of the loop of api_parse_pdfs in the thread of client c:
\* an upload that is no .pdf is skipped, a .pdf is saved, parsed (each stage
\* of extract computed from the values of the stages before it) and stored
\* in the global parsed_files under str(idx + 1)
SrvFile(c) ==
  /\ requests[c].at = "loop"
  /\ requests[c].idx < Len(requests[c].files)
  /\ LET f          == requests[c].files[requests[c].idx + 1]
         safe_name  == f.filename
         saved      == DictSet(upload_dir, safe_name, f.content)
         id         == file_id(requests[c].idx)
     IN  IF ~IsPdfName(safe_name)
           THEN /\ requests' = Thread(c, [idx |-> requests[c].idx + 1])
                /\ UNCHANGED <<parsed_files, upload_dir>>
           ELSE \E ls \in {get_lines(saved[safe_name].text)} :
                \E s \in {IF \E i \in 1..Len(ls) : Contains(ls[i], ANCHOR)
                            THEN extract_name_phone_old_format(ls)
                          ELSE extract_name_phone_new_format(ls)} :
                \E ph \in {IF s.phone # <<>> THEN s.phone
                           ELSE ScanPhone8(ls)} :
                \E its \in {parse_items(ls, ph).items} :
                \E r \in {IF saved[safe_name].readable
                            THEN ExtractDict(ls, s, ph, its)
                          ELSE EmptyDict} :
                \E fields \in
                     {[k \in ResultKeys |->
                         ensure_dot(RawGet(r, IF k = "cstcode"
                                                THEN "cst code" ELSE k))]} :
                \E normalized \in
                     {[k \in ResultKeys |-> ensure_dot(RawGet(fields, k))]} :
                /\ upload_dir' = saved
                /\ parsed_files' =
                     DictSet(parsed_files, id,
                             [id |-> id, filename |-> safe_name,
                              path |-> PathOf(safe_name),
                              fields |-> normalized])
                /\ requests' =
                     Thread(c, [idx |-> requests[c].idx + 1,
                                out |-> Append(requests[c].out,
                                               [id |-> id,
                                                filename |-> safe_name,
                                                fields |-> normalized])])
  /\ UNCHANGED <<pc, created>>
  /\ UNCHANGED single

\* return jsonify({"files": out}): the page of client c shows the files
SrvRespond(c) ==
  /\ requests[c].at = "loop"
  /\ requests[c].idx = Len(requests[c].files)
  /\ requests' = Thread(c, [at |-> "page", page |-> requests[c].out])
  /\ UNCHANGED <<pc, parsed_files, upload_dir, created>>
  /\ UNCHANGED single

\* client c posts /create_tickets with a ticket for every file of its page:
\* run_ticket_batch has its browser and is logged in
SrvCreateTickets(c) ==
  /\ requests[c].at = "page"
  /\ requests' = Thread(c, [at |-> "batch", ticket_idx |-> 1])
  /\ UNCHANGED <<pc, parsed_files, upload_dir, created>>
  /\ UNCHANGED single

\* one iteration of the loop of run_ticket_batch in the thread of client c:
\* parsed = parsed_files.get(str(fid)); a ticket that create_single_ticket
\* completes is made of parsed.filename and parsed.fields
SrvTicket(c) ==
  /\ requests[c].at = "batch"
  /\ requests[c].ticket_idx <= Len(requests[c].page)
  /\ LET fid == requests[c].page[requests[c].ticket_idx].id
     IN  IF fid \notin DOMAIN parsed_files
           THEN UNCHANGED created
           ELSE \E ok \in BOOLEAN :
                  created' =
                    IF ok
                      THEN created \cup
                             {[client |-> c, id |-> fid,
                               filename |-> parsed_files[fid].filename,
                               fields |-> parsed_files[fid].fields]}
                      ELSE created
  /\ requests' = Thread(c, [ticket_idx |-> requests[c].ticket_idx + 1])
  /\ UNCHANGED <<pc, parsed_files, upload_dir>>
  /\ UNCHANGED single

\* return jsonify({"results": results})
SrvResults(c) ==
  /\ requests[c].at = "batch"
  /\ requests[c].ticket_idx > Len(requests[c].page)
  /\ requests' = Thread(c, [at |-> "finished"])
  /\ UNCHANGED <<pc, parsed_files, upload_dir, created>>
  /\ UNCHANGED single

ServerInit ==
  /\ requests = [c \in Clients |-> NoRequest]
  /\ created = {}
  /\ pc = "server"
  /\ parsed_files = EmptyDict
  /\ upload_dir = EmptyDict
  /\ files = <<>> /\ idx = 0 /\ out = <<>>
  /\ file = [readable |-> FALSE, text |-> <<>>]
  /\ lines = <<>>
  /\ is_old_format = FALSE
  /\ invoice = <<>> /\ cst = <<>>
  /\ strategy = [name |-> <<>>, surname |-> <<>>, phone |-> <<>>]
  /\ name = <<>> /\ surname = <<>> /\ phone = <<>>
  /\ parsed = NoItems
  /\ material = <<>> /\ product = <<>> /\ serial = <<>>
  /\ raw = EmptyDict
  /\ result = EmptyDict
  /\ AutomationIdle
  /\ BatchIdle

ServerNext ==
  \/ \E c \in Clients : SrvParsePdfs(c)
  \/ \E c \in Clients : SrvFile(c)
  \/ \E c \in Clients : SrvRespond(c)
  \/ \E c \in Clients : SrvCreateTickets(c)
  \/ \E c \in Clients : SrvTicket(c)
  \/ \E c \in Clients : SrvResults(c)

ServerSpec == ServerInit /\ [][ServerNext]_vars

(***************************************************************************)
(* Properties.                                                             *)
(***************************************************************************)

\* C1: for every sequence of text lines (the empty one and the ones in
\* which nothing matches included) extract returns a dictionary with
\* exactly the eight keys name, surname, phone, invoice, cst code,
\* material, product, serial, every value a string, and it does not raise.
C1_ExtractTotal ==
  /\ file.readable => pc # "raised"
  /\ pc = "returned" =>
       /\ DOMAIN raw = ExtractKeys
       /\ Cardinality(DOMAIN raw) = 8
       /\ \A k \in ExtractKeys : raw[k] # None /\ IsString(raw[k])

\* a document with lines of which no extractor matches anything
C1_Witness ==
  /\ pc = "returned"
  /\ lines # <<>>
  /\ \A k \in ExtractKeys : raw[k] = <<>>

\* an absent price ranks below every present price
C2_Below(a, b) ==
  \/ a = NoPrice /\ b # NoPrice
  \/ a # NoPrice /\ b # NoPrice /\ a < b

\* C2: with a non-empty item list, material and product are the SKU and
\* the description of the item of greatest price (an absent price below
\* every present one), the first discovered among the items of greatest
\* price; with an empty item list both are the empty string.
C2_CanonicalItem ==
  pc = "returned" =>
    LET items == parsed.items
    IN  IF items = <<>> THEN material = <<>> /\ product = <<>>
        ELSE \E i \in 1..Len(items) :
               /\ material = items[i].sku
               /\ product = items[i].desc
               /\ \A j \in 1..Len(items) :
                     ~C2_Below(items[i].gross, items[j].gross)
               /\ \A j \in 1..(i - 1) :
                     C2_Below(items[j].gross, items[i].gross)

\* several items, one with the greatest price and one without a price
C2_Witness ==
  /\ pc = "returned"
  /\ Len(parsed.items) >= 2
  /\ \E i \in 1..Len(parsed.items), j \in 1..Len(parsed.items) :
        /\ parsed.items[i].gross # NoPrice
        /\ parsed.items[j].gross = NoPrice
        /\ material = parsed.items[i].sku

\* C3: the SKU values of the item list are pairwise distinct and the list
\* is as long as the number of distinct SKU tokens discovered after the
\* table header.
C3_DistinctSkus ==
  pc = "items" =>
    LET items == parsed.items
    IN  /\ \A i \in 1..Len(items), j \in 1..Len(items) :
              i # j => items[i].sku # items[j].sku
        /\ Len(items) = Cardinality({items[i].sku : i \in 1..Len(items)})

C4_Sku == <<"1","9","6","7","7","8","7">>

C4_Desc == <<"H","A","N","D","S","F","R","E","E"," ","A","P","P","L","E">>

\* C4: one discovered SKU "1967787" with the inline description
\* "HANDSFREE APPLE" and the price candidates {15.00, 190.00, 1000.00}:
\* the noise rejection leaves exactly {15.00, 1000.00} and parse_items
\* returns the single item 1967787 / HANDSFREE APPLE / 1000.00.
C4_EndToEnd ==
  ( /\ pc = "items"
    /\ parsed.skus = <<C4_Sku>>
    /\ \E i \in 1..Len(lines) : lines[i] = C4_Sku \o <<" ">> \o C4_Desc
    /\ SeqRange(parsed.all_prices) = {1500, 19000, 100000} )
  => /\ SeqRange(parsed.filtered) = {1500, 100000}
     /\ parsed.product_prices = parsed.filtered
     /\ parsed.items =
          <<[sku |-> C4_Sku, desc |-> C4_Desc, gross |-> 100000]>>

\* the SKU line of C4 after the header, with the three candidates
C4_Witness ==
  /\ pc = "items"
  /\ parsed.skus = <<C4_Sku>>
  /\ SeqRange(parsed.all_prices) = {1500, 19000, 100000}
  /\ Len(parsed.items) = 1

\* p approximates, within 0.5, another candidate of S times 0.19
C5_VatOf(p, S) == \E b \in S \ {p} : Abs(100 * p - 19 * b) < 5000

\* p approximates, within 1.0, the sum of 2 other candidates of S or, with
\* at least 4 candidates, the sum of k other candidates, k from 3 to 9
C6_NearSum(p, S) ==
  \E T \in SUBSET (S \ {p}) :
     /\ \/ Cardinality(T) = 2
        \/ Cardinality(S) >= 4 /\ Cardinality(T) >= 3 /\ Cardinality(T) <= 9
     /\ Abs(p - SetSum(T)) < 100

C7_NameFromWindow(n) ==
  (pc = "identity" /\ is_old_format) =>
    LET a == FirstIdx({i \in 1..Len(lines) : Contains(lines[i], ANCHOR)})
        W == {i \in (a + 1)..Min(Len(lines), a + n) :
                looks_like_name(lines[i])}
    IN  /\ W # {} =>
             LET toks == Split(lines[FirstIdx(W)])
             IN  /\ name = toks[Len(toks)]
                 /\ surname = JoinWith(SubSeq(toks, 1, Len(toks) - 1),
                                       <<" ">>)
        /\ (a < Len(lines) /\ lines[a + 1] = L_NAME_MICHAEL) =>
             /\ name = <<"A","N","G","E","L","O","U">>
             /\ surname = <<"M","I","C","H","A","E","L">>

\* C7 as stated: the first name-like line among the 12 lines that follow
\* the anchor line, up to and including the 12th, gives the name.
C7_Original == C7_NameFromWindow(12)

\* C7 amended: in an OLD-format document the name is taken from the first
\* name-like line among the 11 lines that follow the anchor line (the 12th
\* is not looked at); last token the given name, the rest the surname.
C7_OldFormatName == C7_NameFromWindow(11)

\* the first name-like line after the anchor is the 11th one, and a
\* name-like line stands before the anchor
C7_Witness ==
  /\ pc = "identity"
  /\ is_old_format
  /\ LET a == FirstIdx({i \in 1..Len(lines) : Contains(lines[i], ANCHOR)})
     IN  /\ a > 1 /\ looks_like_name(lines[1])
         /\ a + 11 <= Len(lines)
         /\ looks_like_name(lines[a + 11])
         /\ \A i \in (a + 1)..(a + 10) : ~looks_like_name(lines[i])
         /\ name = Split(lines[a + 11])[Len(Split(lines[a + 11]))]

\* a 2 or 9 followed by 7 digits, not adjacent to another digit, at
\* position i of t
C8_CyprusAt(t, i) ==
  /\ i + 7 <= Len(t)
  /\ t[i] \in {"2", "9"}
  /\ \A k \in i..(i + 7) : t[k] \in Digit
  /\ (i = 1 \/ t[i - 1] \notin Digit)
  /\ (i + 8 > Len(t) \/ t[i + 8] \notin Digit)

\* a "+" followed by at least 10 digits at position i of t
C8_IntlAt(t, i) ==
  /\ i + 10 <= Len(t)
  /\ t[i] = "+"
  /\ \A k \in (i + 1)..(i + 10) : t[k] \in Digit

C9_Shape(t) ==
  \/ /\ Len(t) \in {2, 3}
     /\ \A i \in 1..(Len(t) - 1) : t[i] \in PlainLetter
     /\ t[Len(t)] \in Digit
  \/ Len(t) = 10 /\ \A i \in 1..10 : t[i] \in Digit
  \/ /\ Len(t) = 10
     /\ t[1] = "C" /\ t[2] \in {"B", "Β"}
     /\ \A i \in 3..10 : t[i] \in Digit

C9_Valid(t) ==
  /\ C9_Shape(t)
  /\ \A i \in 1..Len(t) : t[i] \notin {"/", "-"}
  /\ ~DateMatch(t)
  /\ Len(t) <= 12

\* C9: extract_cst returns the first valid token, in line order and then
\* in token order within the line, the empty string when no token is
\* valid; a token is valid iff it has one of the three shapes, holds no
\* "/" or "-", is not a date and is at most 12 long; "P2" and "1234567890"
\* are valid, "12/05/2024" and "ABCDE" are not.
C9_FirstValidCst ==
  /\ pc = "identity" =>
       LET toks == AllTokens(lines)
           V    == {k \in 1..Len(toks) : C9_Valid(toks[k])}
       IN  /\ cst = IF V = {} THEN <<>> ELSE toks[FirstIdx(V)]
           /\ \A k \in 1..Len(toks) :
                 is_valid_cst(toks[k]) <=> C9_Valid(toks[k])
  /\ is_valid_cst(L_CST_P2) /\ is_valid_cst(L_CST_10)
  /\ ~is_valid_cst(L_CST_DATE) /\ ~is_valid_cst(L_CST_ABCDE)

\* the first token is not valid, the second is and wins over the third
C9_Witness ==
  /\ pc = "identity"
  /\ lines # <<>> /\ lines[1] = L_CST_MIXED
  /\ cst = <<"A", "7">>

\* C10: when reading the PDF raises, parse_pdf still returns, with all
\* eight fields present and each of them the placeholder ".".
C10_ReadFailure ==
  /\ pc = "raised" => ENABLED ParsePdfReturn
  /\ (pc = "done" /\ ~file.readable) =>
       /\ DOMAIN result = ResultKeys
       /\ Cardinality(DOMAIN result) = 8
       /\ \A k \in ResultKeys : result[k] = <<".">>

\* parse_pdf has returned for a file that could not be read
C10_Witness ==
  /\ pc = "done"
  /\ ~file.readable
  /\ raw = EmptyDict

\* C11: for every upload whose name ends in .pdf the /parse_pdfs handler
\* returns, in upload order, an entry {id, filename, fields}: fields has the
\* eight keys, each a non-empty string, which is "." when the extracted
\* value is missing, empty or blank and the stripped extracted value
\* otherwise; the ids of one response are pairwise distinct and each
\* returned id is a key of parsed_files holding the same fields.
C11_Pdfs == SortAsc({i \in 1..idx : IsPdfName(files[i].filename)})

C11_Expected(v) ==
  IF v = None THEN <<".">>
  ELSE IF Strip(v) = <<>> THEN <<".">> ELSE Strip(v)

C12_PhoneOf(s) == IF s.phone # <<>> THEN s.phone ELSE ScanPhone8(lines)

C12_PhoneOld == C12_PhoneOf(extract_name_phone_old_format(lines))

C12_PhoneNew == C12_PhoneOf(extract_name_phone_new_format(lines))

C12_Scalars ==
  /\ invoice = extract_invoice(lines, FullText(lines))
  /\ cst = extract_cst(lines, FullText(lines))
  /\ serial = extract_serial(lines, FullText(lines))

C12_Original ==
  pc = "returned" =>
    /\ \A p \in {C12_PhoneOld, C12_PhoneNew} :
          /\ parse_items(lines, p).items = parsed.items
          /\ parsed.items # <<>> =>
                /\ material = BestItem(parse_items(lines, p).items).sku
                /\ product = BestItem(parse_items(lines, p).items).desc
    /\ C12_Scalars

\* C12 amended: the phone reaches the item list only as the code to leave
\* out.  Whichever strategy is run, the item list (hence material and
\* product) is the one built without any exclusion unless a SKU-shaped code
\* after the table header equals the phone that strategy produced; invoice,
\* CST code and serial are the same whichever strategy is run.
C12_FormatFlag ==
  pc = "returned" =>
    LET free == parse_items(lines, <<>>)
    IN  /\ phone = IF is_old_format THEN C12_PhoneOld ELSE C12_PhoneNew
        /\ \A p \in {C12_PhoneOld, C12_PhoneNew} :
              p \notin SeqRange(free.skus) =>
                 parse_items(lines, p).items = free.items
        /\ phone \notin SeqRange(free.skus) =>
              /\ parsed.items = free.items
              /\ free.items # <<>> =>
                    /\ material = BestItem(free.items).sku
                    /\ product = BestItem(free.items).desc
        /\ C12_Scalars

\* the two strategies give different phones, neither of them a code of the
\* table, and the table has an item
C12_Witness ==
  /\ pc = "returned"
  /\ C12_PhoneOld # C12_PhoneNew
  /\ C12_PhoneOld # <<>> /\ C12_PhoneNew # <<>>
  /\ parsed.items # <<>>
  /\ {C12_PhoneOld, C12_PhoneNew} \cap SeqRange(parse_items(lines, <<>>).skus)
       = {}

\* C13 as stated: a line after the table header contributes a SKU exactly
\* when it is a standalone 6-8 digit token or its first token is a 6-8
\* digit code and the rest of the line contains a product keyword; a code
\* followed by text without a keyword is not a SKU line (a code equal to
\* the extracted phone is set aside: it is never a SKU).
C13_Header == FirstIdx({i \in 1..Len(lines) : Contains(lines[i], TABLE_HEADER)})

C13_Code(s) == Split(s)[1]

\* the text after the first token
C13_Rest(s) ==
  LET t == Strip(s)
  IN  LStrip(SubSeq(t, Len(C13_Code(s)) + 1, Len(t)))

C13_Leading(s) ==
  /\ Len(Split(s)) >= 2
  /\ Len(C13_Code(s)) \in 6..8 /\ AllDigits(C13_Code(s))

C13_Standalone(s) ==
  /\ Len(Split(s)) = 1
  /\ Len(C13_Code(s)) \in 6..8 /\ AllDigits(C13_Code(s))

C13_Keyword(s) == ContainsAny(Upper(C13_Rest(s)), INLINE_KEYWORDS)

\* the codes of the given lines, in line order
C13_Codes(Lines) ==
  LET order == SortAsc(Lines)
  IN  [k \in 1..Len(order) |-> C13_Code(lines[order[k]])]

C13_SkuLines ==
  {i \in (C13_Header + 1)..Len(lines) :
     /\ C13_Standalone(lines[i]) \/ C13_Leading(lines[i])
     /\ C13_Code(lines[i]) # phone}

C14_Descending(q) == \A i \in 1..(Len(q) - 1) : q[i] > q[i + 1]

C14_Smallest ==
  LET A == SeqRange(parsed.all_prices)
  IN  {p \in A : Cardinality({q \in A : q < p}) < 2 * Len(parsed.skus)}

C14_Fallback ==
  /\ pc = "items"
  /\ parsed.skus # <<>>
  /\ Len(parsed.filtered) < Len(parsed.skus)

C14_Original ==
  (C14_Fallback /\ Cardinality(SeqRange(parsed.skus)) = Len(parsed.skus)) =>
    /\ C14_Descending(parsed.product_prices)
    /\ SeqRange(parsed.product_prices) = C14_Smallest

\* C14 amended: of the smallest 2n candidate values, sorted descending, only
\* the first n (the n largest of them) are handed to the assignment step.
C14_UnderFilterFallback ==
  C14_Fallback =>
    /\ C14_Descending(parsed.product_prices)
    /\ \A p \in C14_Smallest : p >= 100 * MIN_PRICE
    /\ SeqRange(parsed.product_prices) =
         {p \in C14_Smallest :
            Cardinality({q \in C14_Smallest : q > p}) < Len(parsed.skus)}

\* the fallback is taken with more than 2n candidates in the document
C14_Witness ==
  /\ C14_Fallback
  /\ Len(parsed.all_prices) > 2 * Len(parsed.skus)
  /\ Len(parsed.product_prices) = Len(parsed.skus)
  /\ Len(parsed.skus) = 2

\* C15: when there are as many remaining prices as SKUs, the items are
\* ranked by tier (phone/tablet/laptop keywords highest, portable-speaker
\* and brand keywords next, unmatched descriptions in the middle, accessory
\* keywords lowest), equal tiers in discovery order, and the k-th ranked
\* item receives the k-th largest price: every price goes to exactly one
\* item and an item of a higher tier never has a smaller price than an
\* item of a lower tier.
C15_Has(desc, w) == Contains(Upper(desc), w)

C15_Tier(desc) ==
  IF \/ C15_Has(desc, <<"I","P","H","O","N","E">>)
     \/ C15_Has(desc, <<"I","P","A","D">>)
     \/ C15_Has(desc, <<"M","A","C","B","O","O","K">>)
     \/ /\ C15_Has(desc, <<"S","A","M","S","U","N","G">>)
        /\ C15_Has(desc, <<"P","H","O","N","E">>)
    THEN 4
  ELSE IF \/ /\ C15_Has(desc, <<"S","P","E","A","K","E","R">>)
             /\ C15_Has(desc, <<"P","O","R","T","A","B","L","E">>)
          \/ C15_Has(desc, <<"J","B","L">>)
    THEN 3
  ELSE IF \E w \in {<<"C","H","A","R","G","E","R">>, <<"C","A","B","L","E">>,
                    <<"C","A","S","E">>, <<"E","A","R","P","O","D","S">>,
                    <<"H","A","N","D","S","F","R","E","E">>} :
             C15_Has(desc, w)
    THEN 1
  ELSE 2

C15_EqualCount ==
  /\ pc = "items"
  /\ parsed.items # <<>>
  /\ Len(parsed.product_prices) = Len(parsed.items)

\* item i is ranked before item j
C15_Before(i, j) ==
  \/ C15_Tier(parsed.items[i].desc) > C15_Tier(parsed.items[j].desc)
  \/ /\ C15_Tier(parsed.items[i].desc) = C15_Tier(parsed.items[j].desc)
     /\ i < j

C15_TierRanking ==
  C15_EqualCount =>
    LET items == parsed.items
        n     == Len(items)
        rank(i) == 1 + Cardinality({j \in 1..n : C15_Before(j, i)})
        sorted_prices == SortDesc(SeqRange(parsed.product_prices))
    IN  /\ \A i \in 1..n : items[i].gross = sorted_prices[rank(i)]
        /\ {items[i].gross : i \in 1..n} = SeqRange(parsed.product_prices)
        /\ \A i, j \in 1..n : i # j => items[i].gross # items[j].gross
        /\ \A i, j \in 1..n :
              C15_Tier(items[i].desc) > C15_Tier(items[j].desc) =>
                 items[i].gross >= items[j].gross

\* three items of three tiers, an item of the default tier and a speaker
\* among them, discovered in another order than they are ranked
C15_Witness ==
  /\ C15_EqualCount
  /\ Len(parsed.items) = 3
  /\ \E i \in 1..3 : C15_Tier(parsed.items[i].desc) = 2
  /\ \E i \in 1..3 : C15_Tier(parsed.items[i].desc) = 3
  /\ \E i, j \in 1..3 : i < j /\ C15_Before(j, i)

\* C16: when the number of remaining prices differs from the number of
\* SKUs, the i-th discovered item receives the i-th price of the
\* descending price list, every item beyond the prices has an absent price
\* (None: neither 0 nor a price), nothing is raised and the items stay in
\* SKU-discovery order.
C16_Mismatch ==
  /\ pc = "items"
  /\ parsed.items # <<>>
  /\ Len(parsed.product_prices) # Len(parsed.items)

C16_Discovery ==
  IF C13_Header = 0 THEN <<>> ELSE C13_Codes(C13_SkuLines)

C16_CountMismatch ==
  /\ pc = "items" =>
        /\ Len(parsed.items) = Len(C16_Discovery)
        /\ \A i \in 1..Len(parsed.items) :
              parsed.items[i].sku = C16_Discovery[i]
  /\ C16_Mismatch =>
        LET prices == SortDesc(SeqRange(parsed.product_prices))
        IN  /\ prices = parsed.product_prices
            /\ \A i \in 1..Len(parsed.items) :
                  IF i <= Len(prices)
                    THEN parsed.items[i].gross = prices[i]
                    ELSE /\ parsed.items[i].gross = NoPrice
                         /\ parsed.items[i].gross # 0
                         /\ parsed.items[i].gross
                              \notin SeqRange(parsed.all_prices)

\* two items and one price: the second item has no price
C16_Witness ==
  /\ C16_Mismatch
  /\ Len(parsed.items) = 2
  /\ Len(parsed.product_prices) = 1
  /\ parsed.items[1].gross = parsed.product_prices[1]
  /\ parsed.items[2].gross = NoPrice

\* C17: each SKU without an inline description, in discovery order, is
\* paired with the candidate description line not yet claimed by another
\* SKU that is nearest to the SKU's line, the lower line index winning on
\* equal distance; no candidate line goes to two SKUs and a pairing is
\* never changed by a later one (stated for pairwise distinct SKUs).
C17_Found ==
  IF C13_Header = 0 THEN <<>> ELSE SkuScan(lines, C13_Header + 1, phone)

\* the candidate description lines, as line |-> text
C17_Candidates ==
  LET cands == parsed.standalone_descriptions
  IN  [i \in {cands[k].line : k \in 1..Len(cands)} |-> Strip(lines[i])]

\* the nearest line of free to line at, 0 when free is empty
C17_Nearest(free, at) ==
  IF free = {} THEN 0
  ELSE CHOOSE c \in free :
         \A d \in free :
            \/ Abs(c - at) < Abs(d - at)
            \/ Abs(c - at) = Abs(d - at) /\ c <= d

\* the pairing sku position |-> candidate line made for the SKUs at todo
RECURSIVE C17_Greedy(_, _)
C17_Greedy(todo, claimed) ==
  IF todo = <<>> THEN <<>>
  ELSE LET c == C17_Nearest(DOMAIN C17_Candidates \ claimed, Head(todo))
       IN  <<c>> \o C17_Greedy(Tail(todo), claimed \cup {c})

C17_GreedyNearest ==
  (/\ pc = "items" /\ parsed.items # <<>>
   /\ Cardinality(SeqRange(parsed.skus)) = Len(parsed.skus)) =>
    LET found == C17_Found
        todo  == SelectSeq([k \in 1..Len(found) |-> k],
                           LAMBDA k : ~found[k].inline)
        pair  == C17_Greedy([k \in 1..Len(todo) |-> found[todo[k]].pos], {})
    IN  \A k \in 1..Len(todo) :
           parsed.items[todo[k]].desc =
             IF pair[k] = 0 THEN <<>> ELSE C17_Candidates[pair[k]]

\* C18 as stated: the candidate description lines are exactly the
\* qualifying lines from the table start through the line 15 positions
\* past the last SKU line (cut at the end of the document); a qualifying
\* line exactly 15 lines after the last SKU is a candidate.
C18_LastSku ==
  CHOOSE i \in C13_SkuLines : \A j \in C13_SkuLines : j <= i

\* not a SKU line, no header or unit label, no serial label, no number, no
\* amount, longer than 3 characters, with a letter and a product keyword
C18_Qualifies(c) ==
  /\ ~(Len(c) \in 6..8 /\ AllDigits(c))
  /\ ~(/\ Split(c) # <<>>
       /\ Len(Split(c)[1]) \in 6..8 /\ AllDigits(Split(c)[1])
       /\ Split(c)[1] \in SeqRange(parsed.skus))
  /\ c \notin SKIP_LABELS
  /\ ~Contains(c, SERIAL_LABEL) /\ ~Contains(Lower(c), SERIAL_LABEL_LOWER)
  /\ ~(/\ \E i \in 1..Len(c) : IsDigit(c[i])
       /\ \A j \in 1..Len(c) : IsDigit(c[j]) \/ c[j] \in {".", ",", " "})
  /\ ~MoneyFullMatch(c)
  /\ Len(c) > 3
  /\ \E i \in 1..Len(c) : c[i] \in PlainLetter
  /\ \E w \in DESC_KEYWORDS : Contains(Upper(c), w)

\* the qualifying lines up to n positions past the last SKU line that no
\* end-of-table marker line precedes
C18_CandidateLines(n) ==
  {i \in (C13_Header + 1)..Min(C18_LastSku + n, Len(lines)) :
     /\ C18_Qualifies(Strip(lines[i]))
     /\ \A j \in (C13_Header + 1)..i :
           ~ContainsAny(Strip(lines[j]), END_MARKERS)}

C18_Collected ==
  {parsed.standalone_descriptions[k].line :
     k \in 1..Len(parsed.standalone_descriptions)}

C18_Original ==
  (pc = "items" /\ parsed.items # <<>>) =>
    C18_Collected = C18_CandidateLines(15)

\* C18 amended: the window ends 14 positions past the last SKU line; a
\* qualifying line exactly 15 lines after the last SKU is no candidate.
\* Lines with the serial label are no candidates, and the first line with
\* an end-of-table marker ends the collection.
C18_DescriptionWindow ==
  (pc = "items" /\ parsed.items # <<>>) =>
    /\ C18_Collected = C18_CandidateLines(14)
    /\ \A k \in 1..Len(parsed.standalone_descriptions) :
          parsed.standalone_descriptions[k].text =
            Strip(lines[parsed.standalone_descriptions[k].line])

\* a qualifying line 14 positions past the last SKU line is collected
C18_Witness ==
  /\ pc = "items" /\ parsed.items # <<>>
  /\ C18_LastSku + 14 \in C18_Collected
  /\ parsed.items[1].desc = Strip(lines[C18_LastSku + 14])

\* C19: in every item list returned by parse_items each present price is a
\* value in [10, 10000] that occurs as a monetary token in the document,
\* and no two items carry the same price, whichever of the rejection,
\* fallback and assignment branches was taken.
C19_Priced == {k \in 1..Len(parsed.items) : parsed.items[k].gross # NoPrice}

C19_Tokens ==
  UNION {SeqRange(MoneyFindAll(lines[i])) : i \in 1..Len(lines)}

C19_PriceInvariant ==
  pc = "items" =>
    /\ \A k \in C19_Priced :
          /\ parsed.items[k].gross >= 100 * 10
          /\ parsed.items[k].gross <= 100 * 10000
          /\ \E m \in C19_Tokens : PriceOf(m) = parsed.items[k].gross
    /\ \A k, j \in C19_Priced :
          k # j => parsed.items[k].gross # parsed.items[j].gross

\* two priced items in a document that also has monetary tokens outside
\* [10, 10000]
C19_Witness ==
  /\ pc = "items"
  /\ Cardinality(C19_Priced) >= 2
  /\ \E m \in C19_Tokens : PriceOf(m) = NoPrice

\* C20: in a NEW-format document up to 3 pure-letter line segments after
\* the name label line are collected as name fragments, the first
\* stop-label line ending the collection; with 2 or more fragments the
\* last one is the given name and the others joined are the surname (A, B,
\* C give surname "A B" and name "C"); a single fragment is split on
\* whitespace, its last token the given name and the rest the surname.
C20_Label == FirstIdx({i \in 1..Len(lines) : Contains(lines[i], NAME_LABEL)})

C20_PureLetters(s) ==
  /\ s # <<>>
  /\ \A i \in 1..Len(s) : s[i] \in Letter \cup {".", "-"} \cup Space
  /\ ~ContainsAny(s, NON_NAME_LABELS)

\* the fragments collected from the lines j..last, at most max of them
RECURSIVE C20_Fragments(_, _, _, _)
C20_Fragments(j, last, parts, max) ==
  IF j > last \/ Len(parts) = max THEN parts
  ELSE IF ContainsAny(Strip(lines[j]), STOP_LABELS) THEN parts
  ELSE C20_Fragments(j + 1, last,
                     IF C20_PureLetters(Strip(lines[j]))
                       THEN Append(parts, Strip(lines[j])) ELSE parts,
                     max)

C20_NameOf(parts) ==
  IF Len(parts) >= 2
    THEN [name    |-> parts[Len(parts)],
          surname |-> JoinWith(SubSeq(parts, 1, Len(parts) - 1), <<" ">>)]
    ELSE LET words == Split(parts[1])
         IN  [name    |-> words[Len(words)],
              surname |-> JoinWith(SubSeq(words, 1, Len(words) - 1),
                                   <<" ">>)]

C20_Holds(max) ==
  (pc = "identity" /\ ~is_old_format /\ C20_Label # 0) =>
    LET parts == C20_Fragments(C20_Label + 1,
                               Min(C20_Label + NAME_SCAN - 1, Len(lines)),
                               <<>>, max)
    IN  parts # <<>> =>
           /\ strategy.name = C20_NameOf(parts).name
           /\ strategy.surname = C20_NameOf(parts).surname

C20_NewFormatName == C20_Holds(3)

(***************************************************************************)
(* C21: the anchored phone search of an OLD-format document.               *)
(***************************************************************************)
\* the anchored search looks at the anchor line and the n lines after it,
\* only at lines that contain the phone label, each read with its blanks
\* removed: it returns the first Cyprus-shaped 8-digit token of the first
\* labelled line that has one, and nothing when no labelled line has one
C21_AnchoredPhone(n) ==
  (pc = "identity" /\ is_old_format) =>
    LET a == FirstIdx({i \in 1..Len(lines) : Contains(lines[i], ANCHOR)})
        txt(i) == Remove(lines[i], " ")
        cy(i) == {j \in 1..Len(txt(i)) : C8_CyprusAt(txt(i), j)}
        LAB == {i \in a..Min(Len(lines), a + n) :
                  Contains(lines[i], PHONE_LABEL) /\ cy(i) # {}}
    IN  IF LAB # {}
          THEN LET i == FirstIdx(LAB)
                   j == FirstIdx(cy(i))
               IN  strategy.phone = SubSeq(txt(i), j, j + 7)
          ELSE strategy.phone = <<>>

C22_NameLike == {i \in 1..Len(lines) : looks_like_name(lines[i])}

\* the positions of the Cyprus-shaped tokens of line i, blanks removed
C22_Cyprus(i) ==
  {j \in 1..Len(Remove(lines[i], " ")) :
     C8_CyprusAt(Remove(lines[i], " "), j)}

\* the lines that hold a Cyprus-shaped token
C22_PhoneLines == {i \in 1..Len(lines) : C22_Cyprus(i) # {}}

C23_SkuShaped(s) == s # <<>> /\ (C13_Standalone(s) \/ C13_Leading(s))

\* C23: without a line containing the item-code column header the item
\* list is empty, and so are material and product, whatever codes and
\* amounts the document holds; with a header every SKU of the list is the
\* code of a line strictly after the first header line, and when no line
\* after it has a code the list is empty.
C23_HeaderGate ==
  pc = "returned" =>
    /\ C13_Header = 0 =>
         /\ parsed.items = <<>>
         /\ RawGet(raw, "material") = <<>>
         /\ RawGet(raw, "product") = <<>>
    /\ C13_Header # 0 =>
         LET After == {i \in (C13_Header + 1)..Len(lines) :
                         C23_SkuShaped(lines[i])}
         IN  /\ \A k \in 1..Len(parsed.items) :
                   \E i \in After : parsed.items[k].sku = C13_Code(lines[i])
             /\ After = {} => parsed.items = <<>>

\* no header, a line of SKU shape and a line of amounts: nothing is found
C23_Witness ==
  /\ pc = "returned"
  /\ C13_Header = 0
  /\ \E i \in 1..Len(lines) : C23_SkuShaped(lines[i])
  /\ \E i \in 1..Len(lines) : MoneyFindAll(lines[i]) # <<>>
  /\ parsed.items = <<>>
  /\ RawGet(raw, "material") = <<>>

(***************************************************************************)
(* C24: the invoice number.                                                *)
(***************************************************************************)
\* the document text: the lines joined by line breaks
C24_Text == JoinWith(lines, <<"\n">>)

\* the length of the run of digits of t that starts at position j
C24_Digits(t, j) ==
  Cardinality({n \in 1..(Len(t) - j + 1) :
                 \A k \in j..(j + n - 1) : t[k] \in Digit})

\* the end of the number digits + mark + digits that starts at position j
\* of t, 0 when there is none
C24_NumberEnd(t, j) ==
  LET m == j + C24_Digits(t, j)
  IN  IF /\ C24_Digits(t, j) >= 1
         /\ m + 3 <= Len(t)
         /\ SubSeq(t, m, m + 3) = INVOICE_MARK
         /\ C24_Digits(t, m + 4) >= 1
        THEN m + 3 + C24_Digits(t, m + 4) ELSE 0

\* the positions j of t where a number starts that is preceded by the
\* label and nothing but blanks and line breaks
C24_Labelled(t) ==
  {j \in 1..Len(t) :
     /\ C24_NumberEnd(t, j) # 0
     /\ \E i \in 1..j :
          /\ i + Len(INVOICE_LABEL) <= j
          /\ SubSeq(t, i, i + Len(INVOICE_LABEL) - 1) = INVOICE_LABEL
          /\ \A k \in (i + Len(INVOICE_LABEL))..(j - 1) :
                t[k] \in {" ", "\n"}}

\* the lines that are 6 digits + mark + 6 digits and nothing else
C24_StandaloneLines ==
  {i \in 1..Len(lines) :
     /\ Len(lines[i]) = 16
     /\ \A k \in (1..6) \cup (11..16) : lines[i][k] \in Digit
     /\ SubSeq(lines[i], 7, 10) = INVOICE_MARK}

\* C24: extract_invoice returns the number captured by the labelled
\* pattern whenever that pattern occurs anywhere in the document text,
\* even after a standalone line of 6 digits + mark + 6 digits; otherwise
\* the first line that is such a standalone number; otherwise nothing.
C24_InvoiceNumber ==
  pc = "returned" =>
    LET t == C24_Text
        inv == RawGet(raw, "invoice")
    IN  IF C24_Labelled(t) # {}
          THEN LET j == FirstIdx(C24_Labelled(t))
               IN  inv = SubSeq(t, j, C24_NumberEnd(t, j))
        ELSE IF C24_StandaloneLines # {}
          THEN inv = lines[FirstIdx(C24_StandaloneLines)]
        ELSE inv = <<>>

\* a standalone number on the first line, a labelled one with another
\* number later: the labelled one is returned
C24_Witness ==
  /\ pc = "returned"
  /\ 1 \in C24_StandaloneLines
  /\ C24_Labelled(C24_Text) # {}
  /\ RawGet(raw, "invoice") # <<>>
  /\ RawGet(raw, "invoice") # lines[1]

(***************************************************************************)
(* C25: the serial number.                                                 *)
(***************************************************************************)
\* line i with its blanks removed
C25_Packed(i) == Remove(lines[i], " ")

\* the positions of t at which at least 14 digits stand in a row
C25_Runs(t) ==
  {j \in 1..(Len(t) - 13) : \A k \in j..(j + 13) : t[k] \in Digit}

\* the lines that contain the serial label, in any letter case, and have
\* such a run
C25_SerialLines ==
  {i \in 1..Len(lines) :
     /\ Contains(Lower(lines[i]), SERIAL_LABEL_LOWER)
     /\ C25_Runs(C25_Packed(i)) # {}}

\* the digits of t from position j on, 20 of them at most
C25_Take(t, j) ==
  LET n == CHOOSE n \in 14..20 :
             /\ j + n - 1 <= Len(t)
             /\ \A k \in j..(j + n - 1) : t[k] \in Digit
             /\ n = 20 \/ j + n > Len(t) \/ t[j + n] \notin Digit
  IN  SubSeq(t, j, j + n - 1)

\* C25: extract_serial returns the first run of 14 to 20 digits (a longer
\* run gives its first 20 digits), taken from the line with its blanks
\* removed, of the first line that contains the serial label and has such
\* a run; labelled lines without one are passed over, later serials are
\* ignored; without such a line the result is empty; a non-empty result is
\* a string of 14 to 20 digits.
C25_SerialNumber ==
  pc = "returned" =>
    LET ser == RawGet(raw, "serial")
    IN  /\ IF C25_SerialLines # {}
             THEN LET i == FirstIdx(C25_SerialLines)
                  IN  ser = C25_Take(C25_Packed(i),
                                     FirstIdx(C25_Runs(C25_Packed(i))))
             ELSE ser = <<>>
        /\ ser # <<>> =>
             /\ Len(ser) \in 14..20
             /\ \A k \in 1..Len(ser) : ser[k] \in Digit

\* a labelled line without a long number, or an unlabelled long number,
\* stands before the labelled line whose number is returned
C25_Witness ==
  /\ pc = "returned"
  /\ Len(lines) = 2
  /\ 2 \in C25_SerialLines
  /\ 1 \notin C25_SerialLines
  /\ lines[1] \in {L_SERIAL_13, L_DIGITS_14}
  /\ RawGet(raw, "serial") # <<>>

(***************************************************************************)
(* C26: what progress_status_robust returns.                               *)
(***************************************************************************)
\* progress_status_robust makes at most 3 attempts; it starts another
\* attempt only after an exception or a failed check, never after finding
\* the browser off the edit page or the option missing, which return False
\* at once; it returns False when the third attempt ends in an exception;
\* it returns True only with the target option selected, and exactly when
\* the dropdown was found again after the save or, if assumed is allowed,
\* when the check of the third attempt timed out
C26_Returns(assumed) ==
  /\ attempt <= 3
  /\ (pc = "attempt" /\ attempt > 1) => observed \in {"error", "unverified"}
  /\ pc = "ps_return" =>
       /\ observed \in {"wrong_page", "no_option"} => ~success
       /\ (attempt = 3 /\ observed = "error") => ~success
       /\ success => page_status = status_flow[status_idx]
       /\ success <=>
            \/ observed = "verified"
            \/ assumed /\ observed = "unverified" /\ attempt = 3

\* C26 as stated: progress_status_robust returns True only when the
\* target option was selected and the status dropdown was found again
\* after the save, and False in every other outcome; at most 3 attempts;
\* False at once off the edit page or without the option; False when all
\* 3 attempts fail.
C26_Original == C26_Returns(FALSE)

\* C26 amended: progress_status_robust returns True only when the target
\* option was selected and either the status dropdown was found again
\* after the save or the check for it timed out on the third attempt (the
\* update is then assumed, not verified), and False in every other
\* outcome; at most 3 attempts; False at once off the edit page or without
\* the option; False when the third attempt ends in an exception.
C26_ProgressStatus == C26_Returns(TRUE)

\* the third attempt selected the option, the check for the dropdown
\* timed out and True was returned
C26_Witness ==
  /\ pc = "ps_return"
  /\ attempt = 3
  /\ observed = "unverified"
  /\ success
  /\ page_status = status_flow[status_idx]

(***************************************************************************)
(* C27: the order of the steps of update_status_and_resolution.            *)
(***************************************************************************)
\* the steps in the order of the statement
C27_Order ==
  <<"technician", "resolution", "With Technician", "In-house Repair",
    "Final Check", "Ready for Pickup", "Closed">>

\* the steps from the resolution fill up to step k all succeeded
C27_AllOk(k) == \A j \in 2..k : steps[j].ok = "ok"

\* C27: update_status_and_resolution calls the technician assignment,
\* then the resolution fill, then the status changes With Technician,
\* In-house Repair, Final Check, Ready for Pickup, Closed in that order; a
\* status is attempted only after the resolution was filled and every
\* earlier status returned success; a failing resolution or status step is
\* the last step and raises; no status is set on the page after a failure;
\* a failed technician assignment is followed by the resolution fill.
C27_StatusOrder ==
  /\ Len(steps) <= Len(C27_Order)
  /\ \A k \in 1..Len(steps) :
        /\ steps[k].step = C27_Order[k]
        /\ k >= 3 => C27_AllOk(k - 1)
        /\ (k >= 2 /\ steps[k].ok = "failed") =>
              /\ k = Len(steps)
              /\ pc = "ticket_raised"
              /\ error # <<>>
  /\ Len(steps) = 1 => pc = "resolution"
  /\ \A k \in 3..Len(C27_Order) :
        page_status = C27_Order[k] =>
          /\ Len(steps) >= k
          /\ C27_AllOk(k - 1)
  /\ pc = "ticket_done" =>
        /\ Len(steps) = Len(C27_Order)
        /\ C27_AllOk(Len(steps))
        /\ page_status = "Closed"

\* the technician assignment failed and the workflow still went through
\* all five statuses
C27_Witness ==
  /\ pc = "ticket_done"
  /\ steps[1].ok = "failed"
  /\ Len(steps) = 7
  /\ page_status = "Closed"

\* C28: run_ticket_batch.  When run_ticket_batch returns, results holds one
\* result per ticket of the payload, in payload order, and a result's
\* filename is the one parsed_files keeps under the ticket's id;
\* create_single_ticket completing without raising appends a result with
\* success true and an empty error, create_single_ticket raising appends a
\* failed result carrying the exception's text, an id missing from
\* parsed_files appends a failed result with the not-found text, and in all
\* three cases the loop goes on with the next ticket; results changes in no
\* other way; and once run_ticket_batch has left, by return or by exception,
\* a browser that was created has been quit.
C28_InOrder ==
  /\ pc \in {"ticket", "form", "workflow", "ticket_done", "ticket_raised"}
       => Len(results) = ticket_idx - 1
  /\ pc = "batch_returned" => Len(results) = Len(tickets_payload)
  /\ \A k \in 1..Len(results) :
       /\ results[k].id = tickets_payload[k]["id"]
       /\ results[k].success => results[k].error = <<>>
       /\ ~results[k].success => results[k].error # <<>>
       /\ results[k].id \notin DOMAIN parsed_files
            => /\ ~results[k].success
               /\ results[k].error = NOT_FOUND_MESSAGE
               /\ results[k].filename = UNKNOWN_FILENAME
       /\ results[k].id \in DOMAIN parsed_files
            => results[k].filename = parsed_files[results[k].id].filename

C28_Quit ==
  pc \in {"batch_returned", "batch_raised"} => driver # "open"

C28_Recorded ==
  /\ pc = "ticket_done"
       => /\ results' = Append(results,
                               [id |-> tickets_payload[ticket_idx]["id"],
                                filename |-> parsed_invoice.filename,
                                success |-> TRUE, error |-> <<>>])
          /\ pc' = "ticket" /\ ticket_idx' = ticket_idx + 1
  /\ pc = "ticket_raised"
       => /\ error # <<>>
          /\ results' = Append(results,
                               [id |-> tickets_payload[ticket_idx]["id"],
                                filename |-> parsed_invoice.filename,
                                success |-> FALSE, error |-> error])
          /\ pc' = "ticket" /\ ticket_idx' = ticket_idx + 1
  /\ results' # results
       => /\ Len(results') = Len(results) + 1
          /\ SubSeq(results', 1, Len(results)) = results
          /\ results'[Len(results')].success <=> pc = "ticket_done"

C28_BatchResults ==
  /\ [](C28_InOrder /\ C28_Quit)
  /\ [][C28_Recorded]_vars

\* C28 witness: a batch of two tickets has returned with the browser quit;
\* the creation of the first ticket raised and the second was created
C28_Witness ==
  /\ pc = "batch_returned"
  /\ driver = "quit"
  /\ Len(tickets_payload) = 2
  /\ Len(results) = 2
  /\ ~results[1].success
  /\ results[1].error \notin {<<>>, NOT_FOUND_MESSAGE}
  /\ results[2].success

\* C29: no item that parse_items produced during extract has a SKU equal to
\* the extracted phone number, whether the code stood alone on its line or
\* led it, so the material extract returns, when it is not empty, differs
\* from the phone it returns.
C29_PhoneNotSku ==
  /\ pc \in {"items", "returned"} =>
       /\ \A k \in 1..Len(parsed.items) : parsed.items[k].sku # phone
       /\ \A k \in 1..Len(parsed.skus) : parsed.skus[k] # phone
  /\ pc = "returned" =>
       /\ RawGet(raw, "phone") = phone
       /\ RawGet(raw, "material") = material
       /\ material # <<>> => material # phone

\* C29 witness: extract returned a material for a document whose table has
\* the phone number both alone on a line and leading a line
C29_Witness ==
  /\ pc = "returned"
  /\ phone # <<>>
  /\ material # <<>>
  /\ \E h \in 1..Len(lines) :
       /\ HasHeader(lines[h])
       /\ \E i \in (h + 1)..Len(lines) : Strip(lines[i]) = phone
       /\ \E i \in (h + 1)..Len(lines) :
            /\ Len(Split1(Strip(lines[i]))) >= 2
            /\ Split1(Strip(lines[i]))[1] = phone

\* C30: an id returned by /parse_pdfs always denotes the invoice it was
\* returned with: whatever the sequence or interleaving of /parse_pdfs and
\* /create_tickets requests, a ticket created for id X of a client's page is
\* made of the filename and the fields the page shows for X.
C30_IdDenotesInvoice ==
  \A t \in created :
     \A k \in 1..Len(requests[t.client].page) :
        requests[t.client].page[k].id = t.id
          => /\ t.filename = requests[t.client].page[k].filename
             /\ t.fields = requests[t.client].page[k].fields

=============================================================================
